---- MODULE Spec2Model ----
(***************************************************************************)
(* The heating control loop of shelly-local-backend/server.js: the boost   *)
(* store (activeBoosts), the commanded-state cache                         *)
(* (lastCommandedRadiatorState) and one execution of heatingControlLoop    *)
(* split at its await points.                                              *)
(*                                                                         *)
(* Time is counted in minutes since Sunday 00:00 local time.  A string is  *)
(* a sequence of character codes: the digits are 0..9 and ':' is 10, which *)
(* keeps the order of the UTF-16 code units JavaScript compares by.        *)
(***************************************************************************)
EXTENDS Integers, Sequences, FiniteSets, TLC

\* ------------------------------------------------------------------ bounds

\* The clock runs from StartOfRun to StartOfRun + MaxElapsed.
MaxElapsed == 3

\* Sunday 23:57: the run crosses midnight into Monday.
StartOfRun == (23 * 60) + 57

\* ------------------------------------------------- Date and string helpers

DayNames == <<"sun", "mon", "tue", "wed", "thu", "fri", "sat">>

getDay(t) == (t \div (24 * 60)) % 7

getHours(t) == (t % (24 * 60)) \div 60

getMinutes(t) == t % 60

\* String(n).padStart(2, '0') for 0 <= n <= 99
padStart2(n) == IF n < 10 THEN <<0, n>> ELSE <<n \div 10, n % 10>>

\* `${HH}:${MM}`
FormatTime(h, m) == padStart2(h) \o <<10>> \o padStart2(m)

dayOfWeek(t) == DayNames[getDay(t) + 1]

currentTime(t) == FormatTime(getHours(t), getMinutes(t))

\* JavaScript's < on two strings: by code unit, a proper prefix is smaller.
RECURSIVE StrLess(_, _)
StrLess(x, y) ==
    IF y = <<>> THEN FALSE
    ELSE IF x = <<>> THEN TRUE
    ELSE IF Head(x) < Head(y) THEN TRUE
    ELSE IF Head(x) > Head(y) THEN FALSE
    ELSE StrLess(Tail(x), Tail(y))

\* A slot that is still active at its end minute.
SlotMatchesClosed(ct, slot) == ~StrLess(ct, slot.startTime) /\ ~StrLess(slot.endTime, ct)

\* currentTime >= slot.startTime && currentTime < slot.endTime
SlotMatches(ct, slot) == ~StrLess(ct, slot.startTime) /\ StrLess(ct, slot.endTime)

\* ------------------------------------------------------------ configuration

NoId == "null"

\* A slot of a day's schedule.  enabledKind: "array", "undefined" (the key is
\* absent) or "notArray" (a truthy value without .join, e.g. a number).
Slot(st, et, ids) ==
    [isNull |-> FALSE, startTime |-> st, endTime |-> et, enabledKind |-> "array",
     enabledRadiatorIds |-> ids, hasTarget |-> FALSE, targetTempC |-> 0]

SlotWithTarget(st, et, ids, t) ==
    [Slot(st, et, ids) EXCEPT !.hasTarget = TRUE, !.targetTempC = t]

SlotNoEnabled(st, et) == [Slot(st, et, <<>>) EXCEPT !.enabledKind = "undefined"]

SlotBadEnabled(st, et) == [Slot(st, et, <<>>) EXCEPT !.enabledKind = "notArray"]

\* a null entry in the day's array
NullSlot == [Slot(<<>>, <<>>, <<>>) EXCEPT !.isNull = TRUE]

\* A day's value in room.schedule: an array of slots, or a truthy value that
\* is not iterable.
Day(slots) == [iterable |-> TRUE, slots |-> slots]

NotIterable == [iterable |-> FALSE, slots |-> <<>>]

t2357 == FormatTime(23, 57)

t2358 == FormatTime(23, 58)

t2359 == FormatTime(23, 59)

t0000 == FormatTime(0, 0)

t0001 == FormatTime(0, 1)

NoSchedule == [present |-> FALSE, days |-> [d \in {} |-> Day(<<>>)]]

Sun(slots) == [present |-> TRUE, days |-> [d \in {"sun"} |-> slots]]

SunMon(s, m) ==
    [present |-> TRUE, days |-> [d \in {"sun", "mon"} |-> IF d = "sun" THEN s ELSE m]]

\* The schedules room r1 is tried with.
SchedOneSlot == Sun(Day(<<Slot(t2358, t2359, <<"a">>)>>))

SchedOverlap ==
    Sun(Day(<<Slot(t2357, t2359, <<"a">>), Slot(t2358, t2359, <<"a", "b">>)>>))

SchedTarget == Sun(Day(<<SlotWithTarget(t2357, t2359, <<"a", "b">>, 22)>>))

SchedNotIterable == Sun(NotIterable)

SchedNullSlot == Sun(Day(<<Slot(t2357, t2358, <<"a">>), NullSlot>>))

SchedBadEnabled == Sun(Day(<<SlotBadEnabled(t2358, t2359)>>))

SchedMidnight ==
    SunMon(Day(<<Slot(t2359, t0001, <<"a">>), SlotNoEnabled(t2357, t2358)>>),
           Day(<<Slot(t0000, t0001, <<"b">>)>>))

R1Schedules ==
    {NoSchedule, SchedOneSlot, SchedOverlap, SchedTarget, SchedNotIterable,
     SchedNullSlot, SchedBadEnabled, SchedMidnight}

Room(id, mode, rads, sensor, sched) ==
    [roomId |-> id, controlMode |-> mode, radiatorDeviceIds |-> rads,
     sensorDeviceId |-> sensor, targetTempC |-> 20, hysteresisC |-> 1,
     schedule |-> sched]

\* r1: a schedule room, a thermostat room with sensor s, or a thermostat room
\* whose sensorDeviceId is null.
KindSchedule == <<"schedule", NoId>>

KindThermostat == <<"thermostat", "s">>

KindNoSensor == <<"thermostat", NoId>>

R1(kind, rads, sched) == Room("r1", kind[1], rads, kind[2], sched)

\* r2 controls radiator b, which r1 may list too.
R2Schedule ==
    Room("r2", "schedule", <<"b">>, NoId, Sun(Day(<<Slot(t2357, t2358, <<"b">>)>>)))

R2Thermostat ==
    Room("r2", "thermostat", <<"b">>, "s", Sun(Day(<<Slot(t2357, t2359, <<"b">>)>>)))

Device(id, sensor) == [id |-> id, hasBtSensorId |-> sensor]

DevicesAll == <<Device("a", FALSE), Device("b", FALSE), Device("s", TRUE)>>

\* b deleted, s without btSensorId, s deleted
DevicesNoB == <<Device("a", FALSE), Device("s", TRUE)>>

DevicesSensorless == <<Device("a", FALSE), Device("b", FALSE), Device("s", FALSE)>>

DevicesNoS == <<Device("a", FALSE), Device("b", FALSE)>>

\* The contents of devices.json and rooms.json a run starts with: one room
\* under every schedule, one room over a registry with its first or second
\* radiator missing, and two rooms with and without a radiator in common.
Configurations ==
    {[devices |-> DevicesAll, rooms |-> <<R1(k, <<"a", "b">>, s)>>] :
        k \in {KindSchedule, KindThermostat}, s \in R1Schedules}
    \cup
    {[devices |-> DevicesAll, rooms |-> <<R1(KindNoSensor, <<"a", "b">>, SchedTarget)>>]}
    \cup
    {[devices |-> DevicesNoB, rooms |-> <<R1(k, rads, SchedTarget)>>] :
        k \in {KindSchedule, KindThermostat}, rads \in {<<"a", "b">>, <<"b", "a">>}}
    \cup
    {[devices |-> d, rooms |-> <<R1(KindThermostat, <<"a", "b">>, SchedTarget)>>] :
        d \in {DevicesSensorless, DevicesNoS}}
    \cup
    {[devices |-> DevicesAll, rooms |-> <<R1(k, rads, s), R2Schedule>>] :
        k \in {KindSchedule, KindThermostat}, rads \in {<<"a">>, <<"a", "b">>},
        s \in {SchedOneSlot, SchedNotIterable}}
    \cup
    {[devices |-> DevicesAll, rooms |-> <<R1(KindSchedule, <<"a">>, s), R2Thermostat>>] :
        s \in {SchedOneSlot, SchedNotIterable}}

RoomIds == {"r1", "r2"}

DeviceIds == {"a", "b", "s"}

\* ------------------------------------------------------------ program state

VARIABLES
    devices,                     \* devices.json
    rooms,                       \* rooms.json
    activeBoosts,                \* roomId -> [until, radiatorIds]; the keys present
    lastCommandedRadiatorState,  \* deviceId -> "on" | "off"; the keys present
    clock,                       \* Date.now(), in minutes
    pc,                          \* where heatingControlLoop stands
    tickDevices,                 \* const devices of the running tick
    tickRooms,                   \* const rooms of the running tick
    commandsToSend,              \* the tick's desired states, in insertion order
    roomIdx,                     \* position of the room loop
    cmdIdx,                      \* position of the dispatch loop
    roomState,                   \* the locals of the room awaiting its sensor
    planned,                     \* the locals each room of this tick ended with
    relayLog,                    \* the Switch.Set calls of this tick, answered
    prevCommands,                \* commandsToSend of the last finished tick
    prevRelayLog,                \* relayLog of the last finished tick
    http,                        \* the boost route that has just answered, if recorded
    other,                       \* the locals of a second, suspended execution of the loop
    timer,                       \* "none", "initial" (the first call is awaited), "interval"
    deletedRooms,                \* the rooms DELETE /rooms/:roomId has removed
    relay                        \* deviceId -> "on" | "off": the relays switched so far

vars ==
    <<devices, rooms, activeBoosts, lastCommandedRadiatorState, clock, pc,
      tickDevices, tickRooms, commandsToSend, roomIdx, cmdIdx, roomState,
      planned, relayLog, prevCommands, prevRelayLog, http, other,
      timer, deletedRooms, relay>>

\* ------------------------------------------------------------------ helpers

Includes(seq, x) == \E i \in 1..Len(seq) : seq[i] = x

\* Array.prototype.filter
RECURSIVE Filter(_, _)
Filter(seq, keep) ==
    IF seq = <<>> THEN <<>>
    ELSE IF Head(seq) \in keep THEN <<Head(seq)>> \o Filter(Tail(seq), keep)
    ELSE Filter(Tail(seq), keep)

Elems(seq) == {seq[i] : i \in 1..Len(seq)}

\* delete obj[k]
DeleteKey(f, k) == [x \in (DOMAIN f) \ {k} |-> f[x]]

\* An assignment that keeps the value a key already has.
PutKeyKeep(f, k, v) == [x \in (DOMAIN f) \cup {k} |-> IF x \in DOMAIN f THEN f[x] ELSE v]

\* obj[k] = v
PutKey(f, k, v) == [x \in (DOMAIN f) \cup {k} |-> IF x = k THEN v ELSE f[x]]

\* devices.find(d => d.id === deviceId) !== undefined
HasDevice(devs, id) == \E i \in 1..Len(devs) : devs[i].id = id

findDeviceById(devs, id) ==
    devs[CHOOSE i \in 1..Len(devs) :
            devs[i].id = id /\ \A j \in 1..(i - 1) : devs[j].id # id]

\* --------------------------------------------------------- the boost store

NoBoost == [until |-> 0, radiatorIds |-> <<>>]

\* A prune that renews the expired boosts for a minute.
PruneExpiredRenew(boosts, now) ==
    [r \in DOMAIN boosts |->
        IF boosts[r].until <= now THEN [boosts[r] EXCEPT !.until = now + 1] ELSE boosts[r]]

\* Object.keys(activeBoosts).forEach: delete when until <= now
PruneExpired(boosts, now) ==
    [r \in {x \in DOMAIN boosts : ~(boosts[x].until <= now)} |-> boosts[r]]

\* ------------------------------------------------------- planning one room

NoSlot == Slot(<<>>, <<>>, <<>>)

todaysSchedule(room, t) ==
    IF room.schedule.present /\ dayOfWeek(t) \in DOMAIN room.schedule.days
    THEN room.schedule.days[dayOfWeek(t)]
    ELSE Day(<<>>)

\* A slot loop without the break: the last matching slot wins.
ScanSlotsLast(slots, ct, i) ==
    LET matching == {k \in i..Len(slots) : ~slots[k].isNull /\ SlotMatches(ct, slots[k])}
    IN  IF \E k \in i..Len(slots) : slots[k].isNull
        THEN [threw |-> TRUE, found |-> FALSE, slot |-> NoSlot]
        ELSE IF matching = {} THEN [threw |-> FALSE, found |-> FALSE, slot |-> NoSlot]
        ELSE [threw |-> FALSE, found |-> TRUE,
              slot |-> slots[CHOOSE k \in matching : \A j \in matching : j <= k]]

\* for (const slot of todaysSchedule): the first slot that matches, or the
\* TypeError of reading a property of null
RECURSIVE ScanSlots(_, _, _)
ScanSlots(slots, ct, i) ==
    IF i > Len(slots) THEN [threw |-> FALSE, found |-> FALSE, slot |-> NoSlot]
    ELSE IF slots[i].isNull THEN [threw |-> TRUE, found |-> FALSE, slot |-> NoSlot]
    ELSE IF SlotMatches(ct, slots[i])
         THEN [threw |-> FALSE, found |-> TRUE, slot |-> slots[i]]
    ELSE ScanSlots(slots, ct, i + 1)

FindActiveSlot(todays, ct) ==
    IF ~todays.iterable THEN [threw |-> TRUE, found |-> FALSE, slot |-> NoSlot]
    ELSE ScanSlots(todays.slots, ct, 1)

\* A planner for which every radiator is enabled while no slot is active.
EnabledIdsOutsideSlots(found, slot) ==
    IF found /\ slot.enabledKind = "array" THEN slot.enabledRadiatorIds
    ELSE IF found THEN <<>>
    ELSE <<"a", "b">>

\* activeSlot?.enabledRadiatorIds || []
EnabledIds(found, slot) ==
    IF found /\ slot.enabledKind = "array" THEN slot.enabledRadiatorIds ELSE <<>>

NoRoomState ==
    [phase |-> "none", room |-> 0, planTime |-> 0, threw |-> FALSE,
     slotFound |-> FALSE, activeSlot |-> NoSlot, enabledIdsInSlot |-> <<>>,
     hasBoost |-> FALSE, activeBoost |-> NoBoost,
     sensor |-> [kind |-> "none", value |-> 0], heatingNeededByTemp |-> FALSE]

\* The locals of one execution of heatingControlLoop, as they are kept while
\* another execution runs.
Locals(p, tds, trs, cmds, ri, ci, rst, pl, rl) ==
    [pc |-> p, tickDevices |-> tds, tickRooms |-> trs, commandsToSend |-> cmds,
     roomIdx |-> ri, cmdIdx |-> ci, roomState |-> rst, planned |-> pl,
     relayLog |-> rl]

\* no execution
NotRunning == Locals("idle", <<>>, <<>>, <<>>, 1, 1, NoRoomState, <<>>, <<>>)

\* The locals a room's iteration has when it reaches the thermostat block:
\* now, activeBoost, activeSlot, enabledIdsInSlot; threw when the slot loop or
\* enabledIdsInSlot.join raised.
PlanLocals(i, room, t, boosts) ==
    LET f == FindActiveSlot(todaysSchedule(room, t), currentTime(t))
        threw == f.threw \/ (f.found /\ f.slot.enabledKind = "notArray")
        hasBoost == room.roomId \in DOMAIN boosts
    IN  [NoRoomState EXCEPT
            !.phase = "sensor", !.room = i, !.planTime = t, !.threw = threw,
            !.slotFound = ~threw /\ f.found,
            !.activeSlot = IF threw THEN NoSlot ELSE f.slot,
            !.enabledIdsInSlot = IF threw THEN <<>> ELSE EnabledIds(f.found, f.slot),
            !.hasBoost = hasBoost,
            !.activeBoost = IF hasBoost THEN boosts[room.roomId] ELSE NoBoost]

\* the conditions under which the loop awaits the sensor's status
NeedsSensorRead(room, devs) ==
    /\ room.controlMode = "thermostat"
    /\ room.sensorDeviceId # NoId
    /\ HasDevice(devs, room.sensorDeviceId)
    /\ findDeviceById(devs, room.sensorDeviceId).hasBtSensorId

lastAnyRadOn(room, cache) ==
    \E i \in 1..Len(room.radiatorDeviceIds) :
        /\ room.radiatorDeviceIds[i] \in DOMAIN cache
        /\ cache[room.radiatorDeviceIds[i]] = "on"

\* A thermostat without the upper bound: above the band the cache decides.
HeatingNeededSticky(room, loc, sensor, cache) ==
    IF sensor.kind # "value" THEN FALSE
    ELSE LET targetTemp == IF loc.slotFound /\ loc.activeSlot.hasTarget
                           THEN loc.activeSlot.targetTempC
                           ELSE room.targetTempC
         IN  IF sensor.value < targetTemp - room.hysteresisC THEN TRUE
             ELSE lastAnyRadOn(room, cache)

\* A thermostat without memory: inside the band no heating is needed.
HeatingNeededNoMemory(room, loc, sensor, cache) ==
    IF sensor.kind # "value" THEN FALSE
    ELSE LET targetTemp == IF loc.slotFound /\ loc.activeSlot.hasTarget
                           THEN loc.activeSlot.targetTempC
                           ELSE room.targetTempC
         IN  sensor.value < targetTemp - room.hysteresisC

\* A thermostat that carries the cache forward when the sensor gives nothing.
HeatingNeededCarry(room, loc, sensor, cache) ==
    IF sensor.kind # "value" THEN lastAnyRadOn(room, cache)
    ELSE LET targetTemp == IF loc.slotFound /\ loc.activeSlot.hasTarget
                           THEN loc.activeSlot.targetTempC
                           ELSE room.targetTempC
         IN  IF sensor.value < targetTemp - room.hysteresisC THEN TRUE
             ELSE IF sensor.value > targetTemp + room.hysteresisC THEN FALSE
             ELSE lastAnyRadOn(room, cache)

\* A thermostat that ignores the slot's target.
HeatingNeededRoomTarget(room, loc, sensor, cache) ==
    IF sensor.kind # "value" THEN FALSE
    ELSE IF sensor.value < room.targetTempC - room.hysteresisC THEN TRUE
    ELSE IF sensor.value > room.targetTempC + room.hysteresisC THEN FALSE
    ELSE lastAnyRadOn(room, cache)

\* A thermostat whose band is open: a reading on a bound counts as outside.
HeatingNeededOpenBand(room, loc, sensor, cache) ==
    IF sensor.kind # "value" THEN FALSE
    ELSE LET targetTemp == IF loc.slotFound /\ loc.activeSlot.hasTarget
                           THEN loc.activeSlot.targetTempC
                           ELSE room.targetTempC
         IN  IF sensor.value <= targetTemp - room.hysteresisC THEN TRUE
             ELSE IF sensor.value >= targetTemp + room.hysteresisC THEN FALSE
             ELSE lastAnyRadOn(room, cache)

\* heatingNeededByTemp once the sensor answered (or was not asked).
HeatingNeeded(room, loc, sensor, cache) ==
    IF sensor.kind # "value" THEN FALSE
    ELSE LET targetTemp == IF loc.slotFound /\ loc.activeSlot.hasTarget
                           THEN loc.activeSlot.targetTempC
                           ELSE room.targetTempC
             lowerBound == targetTemp - room.hysteresisC
             upperBound == targetTemp + room.hysteresisC
         IN  IF sensor.value < lowerBound THEN TRUE
             ELSE IF sensor.value > upperBound THEN FALSE
             ELSE lastAnyRadOn(room, cache)

isRadiatorBoosted(loc, radiatorId) ==
    loc.hasBoost /\ Includes(loc.activeBoost.radiatorIds, radiatorId)

desiredRadiatorState(room, loc, heatingNeededByTemp, radiatorId) ==
    IF isRadiatorBoosted(loc, radiatorId) THEN "on"
    ELSE LET isEnabledBySchedule == Includes(loc.enabledIdsInSlot, radiatorId)
         IN  IF room.controlMode = "thermostat"
             THEN (IF isEnabledBySchedule /\ heatingNeededByTemp THEN "on" ELSE "off")
             ELSE IF room.controlMode = "schedule"
             THEN (IF isEnabledBySchedule THEN "on" ELSE "off")
             ELSE "off"

\* An assignment that keeps the state a radiator already has in the map.
SetCommandKeep(cmds, id, state) ==
    IF \E i \in 1..Len(cmds) : cmds[i].id = id THEN cmds
    ELSE Append(cmds, [id |-> id, state |-> state])

\* commandsToSend[id] = state, keeping the keys' insertion order
SetCommand(cmds, id, state) ==
    IF \E i \in 1..Len(cmds) : cmds[i].id = id
    THEN [i \in 1..Len(cmds) |->
            IF cmds[i].id = id THEN [id |-> id, state |-> state] ELSE cmds[i]]
    ELSE Append(cmds, [id |-> id, state |-> state])

\* for (const radiatorId of room.radiatorDeviceIds) commandsToSend[radiatorId] = ...
RECURSIVE QueueCommands(_, _, _, _, _)
QueueCommands(cmds, room, loc, hn, i) ==
    IF i > Len(room.radiatorDeviceIds) THEN cmds
    ELSE QueueCommands(
            SetCommand(cmds, room.radiatorDeviceIds[i],
                       desiredRadiatorState(room, loc, hn, room.radiatorDeviceIds[i])),
            room, loc, hn, i + 1)

\* A catch block that queues nothing.
QueueOffNothing(cmds, room, i) == cmds

\* the catch block: every radiator of the room is queued "off"
RECURSIVE QueueOff(_, _, _)
QueueOff(cmds, room, i) ==
    IF i > Len(room.radiatorDeviceIds) THEN cmds
    ELSE QueueOff(SetCommand(cmds, room.radiatorDeviceIds[i], "off"), room, i + 1)

HasCommand(cmds, id) == \E i \in 1..Len(cmds) : cmds[i].id = id

CommandFor(cmds, id) == cmds[CHOOSE i \in 1..Len(cmds) : cmds[i].id = id].state


\* ------------------------------------------------------------------ inputs

Dur(n) == [present |-> TRUE, value |-> n]

NoDuration == [present |-> FALSE, value |-> 0]

\* the requests of Spec: an invalid and a valid duration, no list and a list
\* naming one radiator of r1 and a stranger
DurationInputs == {Dur(0), Dur(1)}

Ids(seq) == [isArray |-> TRUE, ids |-> seq]

NoIds == [isArray |-> FALSE, ids |-> <<>>]

RadiatorIdInputs == {NoIds, Ids(<<"a", "zz">>)}

RoomIdInputs == RoomIds \cup {"zz"}

Reading(v) == [kind |-> "value", value |-> v]

\* What the sensor's GetStatus can come to: the request throws (unreachable,
\* timeout, HTTP error), the answer has no value, or it has a temperature.
SensorOutcomes ==
    {[kind |-> "error", value |-> 0], [kind |-> "novalue", value |-> 0]}
    \cup {Reading(v) : v \in {18, 19, 21, 22, 24}}

\* ------------------------------------------------- the routes' last answer

\* What is kept of a boost route's request and response while it is recorded:
\* the request (route, roomId, durationMinutes, radiatorIds, at), the status,
\* the body's fields (boosted, until, radiatorIds, rooms) and the boost store
\* the request found (before).  pruned: the rooms whose expired boost the
\* loop's prune deleted, with no boost started since.
NoHttp ==
    [recording |-> FALSE, pruned |-> {}, route |-> "none", roomId |-> "",
     durationMinutes |-> NoDuration, radiatorIds |-> NoIds, at |-> 0,
     status |-> 0, boosted |-> FALSE, until |-> 0, boostedRadiators |-> <<>>,
     rooms |-> [r \in {} |-> NoBoost], before |-> [r \in {} |-> NoBoost]]

\* no route has just answered
Quiet(h) == [NoHttp EXCEPT !.recording = h.recording, !.pruned = h.pruned]

\* --------------------------------------------------------------------- Init

InitRecording(configurations, recording) ==
    /\ \E c \in configurations : devices = c.devices /\ rooms = c.rooms
    /\ http = [NoHttp EXCEPT !.recording = recording]
    /\ activeBoosts = [r \in {} |-> NoBoost]
    /\ lastCommandedRadiatorState = [d \in {} |-> "off"]
    /\ clock = StartOfRun
    /\ pc = "idle"
    /\ tickDevices = <<>>
    /\ tickRooms = <<>>
    /\ commandsToSend = <<>>
    /\ roomIdx = 1
    /\ cmdIdx = 1
    /\ roomState = NoRoomState
    /\ planned = <<>>
    /\ relayLog = <<>>
    /\ prevCommands = <<>>
    /\ prevRelayLog = <<>>
    /\ other = NotRunning
    /\ timer = "none"
    /\ deletedRooms = {}
    /\ relay = [d \in {} |-> "off"]

InitWith(configurations) == InitRecording(configurations, FALSE)

Init == InitWith(Configurations)

\* The loop is suspended in an await (or not running): the only points at
\* which a request handler runs or time passes.
AtAwait == pc \in {"idle", "readDevices", "readRooms", "sensor", "setRelay"}

\* ------------------------------------------------------ heatingControlLoop

\* app.listen's callback awaits the first call of the loop; setInterval is
\* reached when that call has returned.
TimerAfterCall(t) == IF t = "none" THEN "initial" ELSE t

TimerAfterReturn(t) == IF t = "initial" THEN "interval" ELSE t

\* setInterval (or the initial call) starts the loop: await readDevices()
TimerFires ==
    /\ pc = "idle"
    /\ timer \in {"none", "interval"}
    /\ pc' = "readDevices"
    /\ timer' = TimerAfterCall(timer)
    /\ http' = Quiet(http)
    /\ UNCHANGED <<other, devices, rooms, deletedRooms, relay, activeBoosts, lastCommandedRadiatorState, clock,
                   tickDevices, tickRooms, commandsToSend, roomIdx, cmdIdx,
                   roomState, planned, relayLog, prevCommands,
                   prevRelayLog>>

\* readDevices() resolved: await readRooms()
ReadDevicesDone ==
    /\ pc = "readDevices"
    /\ tickDevices' = devices
    /\ pc' = "readRooms"
    /\ http' = Quiet(http)
    /\ UNCHANGED <<timer, other, devices, rooms, deletedRooms, relay, activeBoosts, lastCommandedRadiatorState, clock,
                   tickRooms, commandsToSend, roomIdx, cmdIdx, roomState,
                   planned, relayLog, prevCommands,
                   prevRelayLog>>

\* the room loop goes on with room i, or ends and the dispatch loop starts
PcAfterRoom(i, rs) == IF i > Len(rs) THEN "dispatch" ELSE "plan"

\* the rooms whose expired boost the prune deletes join the pruned ones
PrunedAfter(h, boosts, now) ==
    IF h.recording
    THEN h.pruned \cup {r \in DOMAIN boosts : boosts[r].until <= now}
    ELSE h.pruned

\* A loop that starts from "off" for every device of the registry.
RECURSIVE InitialCommandsAllOff(_)
InitialCommandsAllOff(devs) ==
    IF devs = <<>> THEN <<>>
    ELSE <<[id |-> Head(devs).id, state |-> "off"]>> \o InitialCommandsAllOff(Tail(devs))

\* const commandsToSend = {}
InitialCommands(devs) == <<>>

\* readRooms() resolved: commandsToSend = {}, the expired boosts are deleted,
\* the room loop starts
ReadRoomsDone ==
    /\ pc = "readRooms"
    /\ tickRooms' = rooms
    /\ commandsToSend' = InitialCommands(tickDevices)
    /\ activeBoosts' = PruneExpired(activeBoosts, clock)
    /\ roomIdx' = 1
    /\ cmdIdx' = 1
    /\ pc' = PcAfterRoom(1, rooms)
    /\ http' = [Quiet(http) EXCEPT !.pruned = PrunedAfter(http, activeBoosts, clock)]
    /\ UNCHANGED <<timer, other, devices, rooms, deletedRooms, relay, lastCommandedRadiatorState, clock, tickDevices,
                   roomState, planned, relayLog, prevCommands,
                   prevRelayLog>>

\* The rest of a room's iteration from the thermostat block's result on: the
\* radiator loop, then the next room.
FinishRoom(room, loc, sensor) ==
    LET hn == HeatingNeeded(room, loc, sensor, lastCommandedRadiatorState)
    IN  /\ commandsToSend' = QueueCommands(commandsToSend, room, loc, hn, 1)
        /\ planned' = Append(planned, [loc EXCEPT !.phase = "done", !.sensor = sensor,
                                                  !.heatingNeededByTemp = hn])
        /\ roomState' = NoRoomState
        /\ roomIdx' = roomIdx + 1
        /\ pc' = PcAfterRoom(roomIdx + 1, tickRooms)

\* catch (roomError)
CatchRoom(room, loc) ==
    /\ commandsToSend' = QueueOff(commandsToSend, room, 1)
    /\ planned' = Append(planned, [loc EXCEPT !.phase = "done"])
    /\ roomState' = NoRoomState
    /\ roomIdx' = roomIdx + 1
    /\ pc' = PcAfterRoom(roomIdx + 1, tickRooms)

\* One room's iteration up to its await of the sensor, or to its end.
PlanRoom ==
    /\ pc = "plan"
    /\ LET room == tickRooms[roomIdx]
           loc == PlanLocals(roomIdx, room, clock, activeBoosts)
       IN  IF loc.threw THEN CatchRoom(room, loc)
           ELSE IF NeedsSensorRead(room, tickDevices)
           THEN /\ pc' = "sensor"
                /\ roomState' = loc
                /\ UNCHANGED <<commandsToSend, roomIdx, planned>>
           ELSE FinishRoom(room, loc, NoRoomState.sensor)
    /\ http' = Quiet(http)
    /\ UNCHANGED <<timer, other, devices, rooms, deletedRooms, relay, activeBoosts, lastCommandedRadiatorState, clock,
                   tickDevices, tickRooms, cmdIdx, relayLog, prevCommands,
                   prevRelayLog>>

\* The sensor's GetStatus request settled.
SensorResponse(outcome) ==
    /\ pc = "sensor"
    /\ FinishRoom(tickRooms[roomIdx], roomState, outcome)
    /\ http' = Quiet(http)
    /\ UNCHANGED <<timer, other, devices, rooms, deletedRooms, relay, activeBoosts, lastCommandedRadiatorState, clock,
                   tickDevices, tickRooms, cmdIdx, relayLog, prevCommands,
                   prevRelayLog>>

\* A dispatch loop that does not compare with the cache.
StateChangedAlways(cache, cmd) == TRUE

\* A dispatch loop that takes a device without a cache entry as off.
StateChangedFromOff(cache, cmd) ==
    IF cmd.id \in DOMAIN cache THEN cache[cmd.id] # cmd.state ELSE cmd.state # "off"

\* lastCommandedRadiatorState[deviceId] !== desiredState
StateChanged(cache, cmd) == ~(cmd.id \in DOMAIN cache /\ cache[cmd.id] = cmd.state)

\* A dispatch loop that does not look the device up.
SendsUnknown(devs, cache, cmd) == StateChanged(cache, cmd)

\* whether the dispatch loop sends Switch.Set for a queued command
SendsCommand(devs, cache, cmd) == HasDevice(devs, cmd.id) /\ StateChanged(cache, cmd)

\* One iteration of the dispatch loop up to its await of Switch.Set, or to
\* its end when the device is unknown or its state has not changed.
Dispatch ==
    /\ pc = "dispatch"
    /\ cmdIdx <= Len(commandsToSend)
    /\ IF SendsCommand(tickDevices, lastCommandedRadiatorState, commandsToSend[cmdIdx])
       THEN pc' = "setRelay" /\ cmdIdx' = cmdIdx
       ELSE pc' = "dispatch" /\ cmdIdx' = cmdIdx + 1
    /\ planned' = <<>>
    /\ prevCommands' = <<>>
    /\ http' = Quiet(http)
    /\ UNCHANGED <<timer, other, devices, rooms, deletedRooms, relay, activeBoosts, lastCommandedRadiatorState, clock,
                   tickDevices, tickRooms, commandsToSend, roomIdx, roomState,
                   relayLog, prevRelayLog>>

\* A cache written before the request's outcome is known.
CacheAfterSetRelayAlways(cache, cmd, ok) == PutKey(cache, cmd.id, cmd.state)

\* A cache that forgets the device when the request fails.
CacheAfterSetRelayForget(cache, cmd, ok) ==
    IF ok THEN PutKey(cache, cmd.id, cmd.state) ELSE DeleteKey(cache, cmd.id)

\* the cache once the Switch.Set request for cmd settled
CacheAfterSetRelay(cache, cmd, ok) ==
    IF ok THEN PutKey(cache, cmd.id, cmd.state) ELSE cache

\* the relay once a Switch.Set request for cmd settled: a request that was
\* answered has switched the relay, a request that failed has not reached it
RelayAfterSwitchSet(rel, cmd, ok) ==
    IF ok THEN PutKey(rel, cmd.id, cmd.state) ELSE rel

\* A dispatch loop that a failed request ends.
SetRelayAborts(ok) ==
    /\ pc = "setRelay"
    /\ relayLog' = Append(relayLog, [id |-> commandsToSend[cmdIdx].id,
                                     state |-> commandsToSend[cmdIdx].state,
                                     ok |-> ok])
    /\ lastCommandedRadiatorState' =
         CacheAfterSetRelay(lastCommandedRadiatorState, commandsToSend[cmdIdx], ok)
    /\ cmdIdx' = IF ok THEN cmdIdx + 1 ELSE Len(commandsToSend) + 1
    /\ pc' = "dispatch"
    /\ http' = Quiet(http)
    /\ relay' = RelayAfterSwitchSet(relay, commandsToSend[cmdIdx], ok)
    /\ UNCHANGED <<timer, other, devices, rooms, deletedRooms, activeBoosts, clock,
                   tickDevices, tickRooms, commandsToSend, roomIdx, roomState, planned,
                   prevCommands, prevRelayLog>>

\* A dispatch loop that sends a failed request again.
SetRelayRetries(ok) ==
    /\ pc = "setRelay"
    /\ IF ok
       THEN /\ relayLog' = Append(relayLog, [id |-> commandsToSend[cmdIdx].id,
                                             state |-> commandsToSend[cmdIdx].state,
                                             ok |-> ok])
            /\ lastCommandedRadiatorState' =
                 PutKey(lastCommandedRadiatorState, commandsToSend[cmdIdx].id,
                        commandsToSend[cmdIdx].state)
            /\ cmdIdx' = cmdIdx + 1
       ELSE UNCHANGED <<relayLog, lastCommandedRadiatorState, cmdIdx>>
    /\ pc' = "dispatch"
    /\ http' = Quiet(http)
    /\ relay' = RelayAfterSwitchSet(relay, commandsToSend[cmdIdx], ok)
    /\ UNCHANGED <<timer, other, devices, rooms, deletedRooms, activeBoosts, clock, tickDevices,
                   tickRooms, commandsToSend, roomIdx, roomState, planned,
                   prevCommands, prevRelayLog>>

\* The Switch.Set request settled: on success the cache takes the state.
SetRelayResponse(ok) ==
    /\ pc = "setRelay"
    /\ relayLog' = Append(relayLog, [id |-> commandsToSend[cmdIdx].id,
                                     state |-> commandsToSend[cmdIdx].state,
                                     ok |-> ok])
    /\ lastCommandedRadiatorState' =
         CacheAfterSetRelay(lastCommandedRadiatorState, commandsToSend[cmdIdx], ok)
    /\ cmdIdx' = cmdIdx + 1
    /\ pc' = "dispatch"
    /\ http' = Quiet(http)
    /\ relay' = RelayAfterSwitchSet(relay, commandsToSend[cmdIdx], ok)
    /\ UNCHANGED <<timer, other, devices, rooms, deletedRooms, activeBoosts, clock, tickDevices, tickRooms,
                   commandsToSend, roomIdx, roomState, planned, prevCommands,
                   prevRelayLog>>

\* "Heating control loop finished."  prevCommands and prevRelayLog keep what
\* the tick wanted and sent in the specifications that record them.
TickDone(record) ==
    /\ pc = "dispatch"
    /\ cmdIdx > Len(commandsToSend)
    /\ pc' = "idle"
    /\ timer' = TimerAfterReturn(timer)
    /\ prevCommands' = IF record THEN commandsToSend ELSE <<>>
    /\ prevRelayLog' = IF record THEN relayLog ELSE <<>>
    /\ commandsToSend' = <<>>
    /\ tickDevices' = <<>>
    /\ tickRooms' = <<>>
    /\ planned' = <<>>
    /\ relayLog' = <<>>
    /\ roomIdx' = 1
    /\ cmdIdx' = 1
    /\ http' = Quiet(http)
    /\ UNCHANGED <<other, devices, rooms, deletedRooms, relay, activeBoosts, lastCommandedRadiatorState, clock,
                   roomState>>

\* ------------------------------------------------------ the boost routes

FindRoom(rs, roomId) ==
    rs[CHOOSE i \in 1..Len(rs) :
          rs[i].roomId = roomId /\ \A j \in 1..(i - 1) : rs[j].roomId # roomId]

HasRoom(rs, roomId) == \E i \in 1..Len(rs) : rs[i].roomId = roomId

\* A request that always resolves to all of the room's radiators.
boostedRadiatorsAll(room, radiatorIds) == room.radiatorDeviceIds

\* the radiators a request resolves to
boostedRadiators(room, radiatorIds) ==
    IF radiatorIds.isArray /\ Len(radiatorIds.ids) > 0
    THEN Filter(radiatorIds.ids, Elems(room.radiatorDeviceIds))
    ELSE room.radiatorDeviceIds

\* A validation that lets a zero durationMinutes through.
StartBoostStatusZero(rs, roomId, durationMinutes, radiatorIds) ==
    IF ~durationMinutes.present \/ durationMinutes.value < 0 THEN 400
    ELSE IF ~HasRoom(rs, roomId) THEN 404
    ELSE IF radiatorIds.isArray /\ Len(radiatorIds.ids) > 0
            /\ boostedRadiators(FindRoom(rs, roomId), radiatorIds) = <<>> THEN 400
    ELSE 200

\* A validation that does not look at the resolved radiators.
StartBoostStatusAnyList(rs, roomId, durationMinutes, radiatorIds) ==
    IF ~durationMinutes.present \/ durationMinutes.value = 0
       \/ durationMinutes.value <= 0 THEN 400
    ELSE IF ~HasRoom(rs, roomId) THEN 404
    ELSE 200

\* the HTTP status POST /rooms/:roomId/boost answers with
StartBoostStatus(rs, roomId, durationMinutes, radiatorIds) ==
    IF ~durationMinutes.present \/ durationMinutes.value = 0
       \/ durationMinutes.value <= 0 THEN 400
    ELSE IF ~HasRoom(rs, roomId) THEN 404
    ELSE IF radiatorIds.isArray /\ Len(radiatorIds.ids) > 0
            /\ boostedRadiators(FindRoom(rs, roomId), radiatorIds) = <<>> THEN 400
    ELSE 200

\* a route's answer is kept only while the routes are recorded
RecordIf(h, answer) == IF h.recording THEN answer ELSE h

\* res.json({ roomId, boostedRadiators, boostUntil, ... }) or the error status
StartBoostAnswer(h, rs, boosts, now, roomId, durationMinutes, radiatorIds) ==
    LET status == StartBoostStatus(rs, roomId, durationMinutes, radiatorIds)
    IN  [Quiet(h) EXCEPT
            !.route = "boost", !.roomId = roomId, !.at = now, !.before = boosts,
            !.durationMinutes = durationMinutes, !.radiatorIds = radiatorIds,
            !.status = status,
            !.until = IF status = 200 THEN now + durationMinutes.value ELSE 0,
            !.boostedRadiators =
                IF status = 200 THEN boostedRadiators(FindRoom(rs, roomId), radiatorIds)
                ELSE <<>>,
            !.pruned = IF status = 200 THEN h.pruned \ {roomId} ELSE h.pruned]

\* 404 "No active boost found for this room", or 200
CancelBoostAnswer(h, boosts, now, roomId) ==
    [Quiet(h) EXCEPT
        !.route = "cancel-boost", !.roomId = roomId, !.at = now, !.before = boosts,
        !.status = IF roomId \in DOMAIN boosts THEN 200 ELSE 404]

\* A status that takes a boost with until = now as active.
BoostStatusAnswerLate(h, boosts, now, roomId) ==
    LET boosted == roomId \in DOMAIN boosts /\ ~(boosts[roomId].until - now < 0)
    IN  [Quiet(h) EXCEPT
            !.route = "boost-status", !.roomId = roomId, !.at = now, !.status = 200,
            !.before = boosts,
            !.boosted = boosted,
            !.until = IF boosted THEN boosts[roomId].until ELSE 0,
            !.boostedRadiators = IF boosted THEN boosts[roomId].radiatorIds ELSE <<>>]

\* { boosted: false } or { boosted: true, until, radiatorIds, ... }
BoostStatusAnswer(h, boosts, now, roomId) ==
    LET boosted == roomId \in DOMAIN boosts /\ ~(boosts[roomId].until - now <= 0)
    IN  [Quiet(h) EXCEPT
            !.route = "boost-status", !.roomId = roomId, !.at = now, !.status = 200,
            !.before = boosts,
            !.boosted = boosted,
            !.until = IF boosted THEN boosts[roomId].until ELSE 0,
            !.boostedRadiators = IF boosted THEN boosts[roomId].radiatorIds ELSE <<>>]

\* boostedRooms: the entries with until > now
BoostedAnswer(h, boosts, now) ==
    [Quiet(h) EXCEPT
        !.route = "boosted", !.at = now, !.status = 200, !.before = boosts,
        !.rooms = [r \in {x \in DOMAIN boosts : boosts[x].until > now} |-> boosts[r]]]

\* A boost route that stores the entry before it has looked at the resolved
\* radiators.
StartBoostEager(roomId, durationMinutes, radiatorIds) ==
    /\ AtAwait
    /\ IF StartBoostStatusAnyList(rooms, roomId, durationMinutes, radiatorIds) = 200
       THEN activeBoosts' =
                PutKey(activeBoosts, roomId,
                       [until |-> clock + durationMinutes.value,
                        radiatorIds |-> boostedRadiators(FindRoom(rooms, roomId),
                                                         radiatorIds)])
       ELSE UNCHANGED activeBoosts
    /\ http' = RecordIf(http, StartBoostAnswer(http, rooms, activeBoosts, clock, roomId,
                                                durationMinutes, radiatorIds))
    /\ UNCHANGED <<timer, other, devices, rooms, deletedRooms, relay, lastCommandedRadiatorState, clock, pc,
                   tickDevices, tickRooms, commandsToSend, roomIdx, cmdIdx,
                   roomState, planned, relayLog, prevCommands,
                   prevRelayLog>>

\* POST /rooms/:roomId/boost
StartBoost(roomId, durationMinutes, radiatorIds) ==
    /\ AtAwait
    /\ IF StartBoostStatus(rooms, roomId, durationMinutes, radiatorIds) = 200
       THEN activeBoosts' =
                PutKey(activeBoosts, roomId,
                       [until |-> clock + durationMinutes.value,
                        radiatorIds |-> boostedRadiators(FindRoom(rooms, roomId),
                                                         radiatorIds)])
       ELSE UNCHANGED activeBoosts
    /\ http' = RecordIf(http, StartBoostAnswer(http, rooms, activeBoosts, clock, roomId,
                                                durationMinutes, radiatorIds))
    /\ UNCHANGED <<timer, other, devices, rooms, deletedRooms, relay, lastCommandedRadiatorState, clock, pc,
                   tickDevices, tickRooms, commandsToSend, roomIdx, cmdIdx,
                   roomState, planned, relayLog, prevCommands,
                   prevRelayLog>>

BoostRequests(durations, lists) ==
    \E r \in RoomIdInputs, d \in durations, ids \in lists : StartBoost(r, d, ids)

\* POST /rooms/:roomId/cancel-boost
CancelBoost(roomId) ==
    /\ AtAwait
    /\ IF roomId \in DOMAIN activeBoosts
       THEN activeBoosts' = DeleteKey(activeBoosts, roomId)
       ELSE UNCHANGED activeBoosts
    /\ http' = RecordIf(http, CancelBoostAnswer(http, activeBoosts, clock, roomId))
    /\ UNCHANGED <<timer, other, devices, rooms, deletedRooms, relay, lastCommandedRadiatorState, clock, pc,
                   tickDevices, tickRooms, commandsToSend, roomIdx, cmdIdx,
                   roomState, planned, relayLog, prevCommands,
                   prevRelayLog>>

\* GET /rooms/:roomId/boost-status
BoostStatus(roomId) ==
    /\ AtAwait
    /\ IF roomId \in DOMAIN activeBoosts /\ activeBoosts[roomId].until - clock <= 0
       THEN activeBoosts' = DeleteKey(activeBoosts, roomId)
       ELSE UNCHANGED activeBoosts
    /\ http' = RecordIf(http, BoostStatusAnswer(http, activeBoosts, clock, roomId))
    /\ UNCHANGED <<timer, other, devices, rooms, deletedRooms, relay, lastCommandedRadiatorState, clock, pc,
                   tickDevices, tickRooms, commandsToSend, roomIdx, cmdIdx,
                   roomState, planned, relayLog, prevCommands,
                   prevRelayLog>>

\* A listing that deletes nothing.
BoostedReadOnly ==
    /\ AtAwait
    /\ http' = RecordIf(http, BoostedAnswer(http, activeBoosts, clock))
    /\ UNCHANGED <<timer, other, devices, rooms, deletedRooms, relay, activeBoosts, lastCommandedRadiatorState, clock, pc,
                   tickDevices, tickRooms, commandsToSend, roomIdx, cmdIdx,
                   roomState, planned, relayLog, prevCommands, prevRelayLog>>

\* GET /rooms/boosted
Boosted ==
    /\ AtAwait
    /\ activeBoosts' =
         [r \in {x \in DOMAIN activeBoosts : activeBoosts[x].until > clock}
            |-> activeBoosts[r]]
    /\ http' = RecordIf(http, BoostedAnswer(http, activeBoosts, clock))
    /\ UNCHANGED <<timer, other, devices, rooms, deletedRooms, relay, lastCommandedRadiatorState, clock, pc,
                   tickDevices, tickRooms, commandsToSend, roomIdx, cmdIdx,
                   roomState, planned, relayLog, prevCommands,
                   prevRelayLog>>

\* ------------------------------------------------------ the room routes

\* rooms.filter(r => r.roomId !== roomId)
RECURSIVE RoomsWithout(_, _)
RoomsWithout(rs, roomId) ==
    IF rs = <<>> THEN <<>>
    ELSE IF Head(rs).roomId # roomId THEN <<Head(rs)>> \o RoomsWithout(Tail(rs), roomId)
    ELSE RoomsWithout(Tail(rs), roomId)

\* DELETE /rooms/:roomId: 404 when no room has the id, else rooms.json is
\* written without the room
DeleteRoom(roomId) ==
    /\ AtAwait
    /\ IF Len(RoomsWithout(rooms, roomId)) = Len(rooms)
       THEN UNCHANGED <<rooms, deletedRooms>>
       ELSE /\ rooms' = RoomsWithout(rooms, roomId)
            /\ deletedRooms' = deletedRooms \cup {FindRoom(rooms, roomId)}
    /\ http' = Quiet(http)
    /\ UNCHANGED <<timer, other, devices, relay, activeBoosts,
                   lastCommandedRadiatorState,
                   clock, pc, tickDevices, tickRooms, commandsToSend, roomIdx, cmdIdx,
                   roomState, planned, relayLog, prevCommands, prevRelayLog>>

\* ------------------------------------------------------------------- time

AdvanceClock ==
    /\ AtAwait
    /\ clock < StartOfRun + MaxElapsed
    /\ clock' = clock + 1
    /\ http' = Quiet(http)
    /\ UNCHANGED <<timer, other, devices, rooms, deletedRooms, relay, activeBoosts, lastCommandedRadiatorState, pc,
                   tickDevices, tickRooms, commandsToSend, roomIdx, cmdIdx,
                   roomState, planned, relayLog, prevCommands,
                   prevRelayLog>>

Step(record) ==
    \/ TimerFires
    \/ ReadDevicesDone
    \/ ReadRoomsDone
    \/ PlanRoom
    \/ \E outcome \in SensorOutcomes : SensorResponse(outcome)
    \/ Dispatch
    \/ \E ok \in BOOLEAN : SetRelayResponse(ok)
    \/ TickDone(record)
    \/ BoostRequests(DurationInputs, RadiatorIdInputs)
    \/ \E r \in RoomIdInputs : CancelBoost(r)
    \/ \E r \in RoomIdInputs : BoostStatus(r)
    \/ Boosted
    \/ AdvanceClock

Next == Step(FALSE)

Spec == Init /\ [][Next]_vars

\* The thermostat rooms alone, with prevCommands recorded at the end of each
\* tick.
MemoryConfigurations ==
    {[devices |-> DevicesAll, rooms |-> <<R1(KindThermostat, <<"a", "b">>, s)>>] :
        s \in {SchedOneSlot, SchedTarget}}

InitMemory == InitWith(MemoryConfigurations)

NextMemory == Step(TRUE)

SpecMemory == InitMemory /\ [][NextMemory]_vars

\* The boost routes with their answers recorded, over two schedule rooms
\* that share radiator b, and with the requests a client can send: a missing,
\* zero, negative or positive durationMinutes; no radiatorIds, an empty
\* list, ids of the room, a stranger, and both.
BoostConfigurations ==
    {[devices |-> DevicesAll,
      rooms |-> <<R1(KindSchedule, <<"a", "b">>, SchedOneSlot), R2Schedule>>]}

BoostDurations == {NoDuration, Dur(0), Dur(0 - 1), Dur(1), Dur(2)}

BoostLists == {NoIds, Ids(<<>>), Ids(<<"a">>), Ids(<<"zz">>), Ids(<<"a", "zz">>)}

InitBoost == InitRecording(BoostConfigurations, TRUE)

\* the recorded answer has gone out
ResponseSent ==
    /\ http.route # "none"
    /\ http' = Quiet(http)
    /\ UNCHANGED <<timer, other, devices, rooms, deletedRooms, relay, activeBoosts, lastCommandedRadiatorState, clock, pc,
                   tickDevices, tickRooms, commandsToSend, roomIdx, cmdIdx,
                   roomState, planned, relayLog, prevCommands, prevRelayLog>>

\* One answer is looked at at a time: the next step after a route answered
\* is the answer going out.
NextBoost ==
    \/ /\ http.route = "none"
       /\ \/ TimerFires
          \/ ReadDevicesDone
          \/ ReadRoomsDone
          \/ PlanRoom
          \/ Dispatch
          \/ \E ok \in BOOLEAN : SetRelayResponse(ok)
          \/ TickDone(FALSE)
          \/ BoostRequests(BoostDurations, BoostLists)
          \/ \E r \in RoomIdInputs : CancelBoost(r)
          \/ \E r \in RoomIdInputs : BoostStatus(r)
          \/ Boosted
          \/ AdvanceClock
    \/ ResponseSent

SpecBoost == InitBoost /\ [][NextBoost]_vars

\* ------------------------------------------- two executions of the loop

CONTROL_LOOP_INTERVAL_MS == 10 * 1000

\* { timeout: 5000 } of the loop's axios requests
AxiosTimeoutMs == 5000

\* the rooms among the first n of the tick whose sensor the loop asks
SensorReads(n) ==
    Cardinality({i \in 1..n : NeedsSensorRead(tickRooms[i], tickDevices)})

\* the requests the running execution has awaited, the pending one included
RequestsAwaited ==
    IF pc = "sensor" THEN SensorReads(roomIdx)
    ELSE IF pc = "setRelay" THEN SensorReads(Len(tickRooms)) + Len(relayLog) + 1
    ELSE 0

\* The interval can have elapsed since the running execution started: the
\* requests before the pending one may each have taken their whole timeout.
IntervalCanElapse == RequestsAwaited * AxiosTimeoutMs >= CONTROL_LOOP_INTERVAL_MS

Running ==
    Locals(pc, tickDevices, tickRooms, commandsToSend, roomIdx, cmdIdx, roomState,
           planned, relayLog)

\* the execution whose locals are l runs
Runs(l) ==
    /\ pc' = l.pc
    /\ tickDevices' = l.tickDevices
    /\ tickRooms' = l.tickRooms
    /\ commandsToSend' = l.commandsToSend
    /\ roomIdx' = l.roomIdx
    /\ cmdIdx' = l.cmdIdx
    /\ roomState' = l.roomState
    /\ planned' = l.planned
    /\ relayLog' = l.relayLog

\* setInterval calls heatingControlLoop while an execution of it is suspended
\* in an await: a second execution starts, up to its await of readDevices().
TimerFiresDuringTick ==
    /\ timer = "interval"
    /\ pc \in {"sensor", "setRelay"}
    /\ IntervalCanElapse
    /\ other = NotRunning
    /\ other' = Running
    /\ Runs([NotRunning EXCEPT !.pc = "readDevices"])
    /\ http' = Quiet(http)
    /\ UNCHANGED <<timer, devices, rooms, deletedRooms, relay, activeBoosts, lastCommandedRadiatorState,
                   clock, prevCommands, prevRelayLog>>

\* The promise the suspended execution awaits settles first: the two
\* executions change places.
Continue ==
    /\ AtAwait
    /\ other # NotRunning
    /\ other' = Running
    /\ Runs(other)
    /\ http' = Quiet(http)
    /\ UNCHANGED <<timer, devices, rooms, deletedRooms, relay, activeBoosts, lastCommandedRadiatorState,
                   clock, prevCommands, prevRelayLog>>

\* A thermostat room and a schedule room of two radiators each, alone.
OverlapConfigurations ==
    {[devices |-> DevicesAll, rooms |-> <<R1(k, <<"a", "b">>, SchedTarget)>>] :
        k \in {KindSchedule, KindThermostat}}

InitOverlap == InitWith(OverlapConfigurations)

NextOverlap ==
    \/ TimerFires
    \/ TimerFiresDuringTick
    \/ Continue
    \/ ReadDevicesDone
    \/ ReadRoomsDone
    \/ PlanRoom
    \/ \E outcome \in SensorOutcomes : SensorResponse(outcome)
    \/ Dispatch
    \/ \E ok \in BOOLEAN : SetRelayResponse(ok)
    \/ TickDone(TRUE)
    \/ AdvanceClock

SpecOverlap == InitOverlap /\ [][NextOverlap]_vars

\* ------------------------------------------------- overlapping slots, edges

\* Both slots contain 23:58; the first enables a alone and sets the target 22,
\* the second enables a and b and sets the target 18.
SchedOverlapTargets ==
    Sun(Day(<<SlotWithTarget(t2358, t2359, <<"a">>, 22),
              SlotWithTarget(t2357, t2359, <<"a", "b">>, 18)>>))

\* The first of two overlapping slots sets no target, the second sets 24.
SchedLaterTarget ==
    Sun(Day(<<Slot(t2357, t2359, <<"a">>),
              SlotWithTarget(t2357, t2359, <<"a", "b">>, 24)>>))

\* A slot that ends when it starts and a slot that ends before it starts.
SchedEmptySlots ==
    Sun(Day(<<Slot(t2358, t2358, <<"a">>), Slot(t2359, t2358, <<"b">>)>>))

\* sun: []
SchedEmptyDay == Sun(Day(<<>>))

PlanSchedules ==
    {SchedOverlapTargets, SchedLaterTarget, SchedEmptySlots, SchedEmptyDay,
     SchedMidnight}

\* r2 lists b, which r1 lists too, and its schedule makes its iteration throw.
R2Throws == Room("r2", "schedule", <<"b">>, NoId, SchedNotIterable)

\* One room under each of these schedules, and two rooms that share b, the
\* later one planning b by its schedule or by its catch block.
PlanConfigurations ==
    {[devices |-> DevicesAll, rooms |-> <<R1(k, <<"a", "b">>, s)>>] :
        k \in {KindSchedule, KindThermostat}, s \in PlanSchedules}
    \cup
    {[devices |-> DevicesAll, rooms |-> <<R1(KindSchedule, <<"a", "b">>, SchedOverlap), r2>>] :
        r2 \in {R2Schedule, R2Throws}}

InitPlan == InitWith(PlanConfigurations)

NextPlan ==
    \/ TimerFires
    \/ ReadDevicesDone
    \/ ReadRoomsDone
    \/ PlanRoom
    \/ \E outcome \in SensorOutcomes : SensorResponse(outcome)
    \/ Dispatch
    \/ \E ok \in BOOLEAN : SetRelayResponse(ok)
    \/ TickDone(FALSE)
    \/ BoostRequests({Dur(1)}, {Ids(<<"b">>)})
    \/ AdvanceClock

SpecPlan == InitPlan /\ [][NextPlan]_vars

\* ------------------------------------------------------- rooms are deleted

\* r1 and r2 with and without radiator b in common, and r1 as a thermostat.
DeleteConfigurations ==
    {[devices |-> DevicesAll, rooms |-> <<R1(KindSchedule, rads, SchedOneSlot), R2Schedule>>] :
        rads \in {<<"a">>, <<"a", "b">>}}
    \cup
    {[devices |-> DevicesAll, rooms |-> <<R1(KindThermostat, <<"a">>, SchedOneSlot), R2Schedule>>]}

InitDelete == InitWith(DeleteConfigurations)

NextDelete ==
    \/ TimerFires
    \/ ReadDevicesDone
    \/ ReadRoomsDone
    \/ PlanRoom
    \/ \E outcome \in SensorOutcomes : SensorResponse(outcome)
    \/ Dispatch
    \/ \E ok \in BOOLEAN : SetRelayResponse(ok)
    \/ TickDone(FALSE)
    \/ \E r \in RoomIdInputs : DeleteRoom(r)
    \/ BoostRequests({Dur(1)}, {NoIds})
    \/ AdvanceClock

SpecDelete == InitDelete /\ [][NextDelete]_vars

\* ---------------------------------------------------------- the loop goes on

\* A thermostat room, whose tick awaits the sensor and both relays.
LiveConfigurations ==
    {[devices |-> DevicesAll, rooms |-> <<R1(KindThermostat, <<"a", "b">>, SchedTarget)>>]}

InitLive == InitWith(LiveConfigurations)

\* a step of the loop: the timer's call, or the continuation after an await
LoopStep ==
    \/ TimerFires
    \/ ReadDevicesDone
    \/ ReadRoomsDone
    \/ PlanRoom
    \/ \E outcome \in SensorOutcomes : SensorResponse(outcome)
    \/ Dispatch
    \/ \E ok \in BOOLEAN : SetRelayResponse(ok)
    \/ TickDone(TRUE)

NextLive == LoopStep \/ AdvanceClock

\* The file reads complete, every axios request settles within its timeout
\* (resolved or rejected), the event loop then runs the continuation, and
\* the timer calls the loop: a step of the loop that can be taken is taken.
SpecLive == InitLive /\ [][NextLive]_vars /\ WF_vars(LoopStep)

\* ------------------------------------------------ the manual device routes

\* what a manual request's two axios calls can come to: both answered, the
\* switch request failed, or the switch was answered and the status fetch failed
ManualOutcomes == {"ok", "switchFailed", "statusFailed"}

\* 400 "Invalid 'state' value", 404 "Device not found", 500 "Failed to control
\* relay", or the device's status
ControlStatus(devs, deviceId, state, outcome) ==
    IF state \notin {"on", "off"} THEN 400
    ELSE IF ~HasDevice(devs, deviceId) THEN 404
    ELSE IF outcome = "ok" THEN 200 ELSE 500

\* 404 "Device not found", 500 "Failed to toggle relay", or the device's status
ToggleStatus(devs, deviceId, outcome) ==
    IF ~HasDevice(devs, deviceId) THEN 404
    ELSE IF outcome = "ok" THEN 200 ELSE 500

\* the request reached axios.get(shellyControlUrl) and the device answered it
Switched(status, outcome) == status \in {200, 500} /\ outcome # "switchFailed"

ManualAnswer(h, route, now, status) ==
    [Quiet(h) EXCEPT !.route = route, !.at = now, !.status = status]

\* A control route that also notes the state in the loop's cache.
ManualControlTracked(deviceId, state, outcome) ==
    LET status == ControlStatus(devices, deviceId, state, outcome)
    IN  /\ AtAwait
        /\ IF Switched(status, outcome)
           THEN /\ relay' = PutKey(relay, deviceId, state)
                /\ lastCommandedRadiatorState' =
                     PutKey(lastCommandedRadiatorState, deviceId, state)
           ELSE UNCHANGED <<relay, lastCommandedRadiatorState>>
        /\ http' = RecordIf(http, ManualAnswer(http, "control", clock, status))
        /\ UNCHANGED <<timer, other, devices, rooms, deletedRooms, activeBoosts,
                       clock, pc, tickDevices, tickRooms, commandsToSend, roomIdx,
                       cmdIdx, roomState, planned, relayLog, prevCommands,
                       prevRelayLog>>

\* POST /devices/:id/control
ManualControl(deviceId, state, outcome) ==
    LET status == ControlStatus(devices, deviceId, state, outcome)
    IN  /\ AtAwait
        /\ IF Switched(status, outcome)
           THEN relay' = PutKey(relay, deviceId, state)
           ELSE UNCHANGED relay
        /\ http' = RecordIf(http, ManualAnswer(http, "control", clock, status))
        /\ UNCHANGED <<timer, other, devices, rooms, deletedRooms, activeBoosts,
                       lastCommandedRadiatorState, clock, pc, tickDevices,
                       tickRooms, commandsToSend, roomIdx, cmdIdx, roomState,
                       planned, relayLog, prevCommands, prevRelayLog>>

\* the states Switch.Toggle can leave the relay in: the other one, either one
\* when nothing has switched the relay yet
Toggled(rel, deviceId) ==
    IF deviceId \in DOMAIN rel
    THEN {IF rel[deviceId] = "on" THEN "off" ELSE "on"}
    ELSE {"on", "off"}

\* POST /devices/:id/toggle
ManualToggle(deviceId, outcome) ==
    LET status == ToggleStatus(devices, deviceId, outcome)
    IN  /\ AtAwait
        /\ IF Switched(status, outcome)
           THEN \E state \in Toggled(relay, deviceId) :
                    relay' = PutKey(relay, deviceId, state)
           ELSE UNCHANGED relay
        /\ http' = RecordIf(http, ManualAnswer(http, "toggle", clock, status))
        /\ UNCHANGED <<timer, other, devices, rooms, deletedRooms, activeBoosts,
                       lastCommandedRadiatorState, clock, pc, tickDevices,
                       tickRooms, commandsToSend, roomIdx, cmdIdx, roomState,
                       planned, relayLog, prevCommands, prevRelayLog>>

\* the manual requests: a radiator of the room and a stranger, a state that
\* is neither "on" nor "off"
ManualDeviceInputs == {"a", "zz"}

ManualStateInputs == {"on", "off", "auto"}

\* A schedule room whose slot enables a from 23:58 on.
ManualConfigurations ==
    {[devices |-> DevicesAll, rooms |-> <<R1(KindSchedule, <<"a", "b">>, SchedOneSlot)>>]}

InitManual == InitRecording(ManualConfigurations, TRUE)

NextManual ==
    \/ TimerFires
    \/ ReadDevicesDone
    \/ ReadRoomsDone
    \/ PlanRoom
    \/ Dispatch
    \/ \E ok \in BOOLEAN : SetRelayResponse(ok)
    \/ TickDone(FALSE)
    \/ \E d \in ManualDeviceInputs, st \in ManualStateInputs, o \in ManualOutcomes :
          ManualControl(d, st, o)
    \/ \E d \in ManualDeviceInputs, o \in ManualOutcomes : ManualToggle(d, o)
    \/ BoostRequests({Dur(1)}, {NoIds})
    \/ AdvanceClock

SpecManual == InitManual /\ [][NextManual]_vars

\* ------------------------------------------- a boost in a room kept warm

\* The sensor never reads below the band of either schedule (20 - 1 and
\* 22 - 1), so that the thermostat block alone never asks for heat and a
\* radiator is first switched on by a boost.
WarmOutcomes == {o \in SensorOutcomes : o.kind = "value" => o.value >= 21}

\* A thermostat room with a slot enabling a alone around the room's target,
\* or a slot enabling a and b around its own target.
WarmConfigurations ==
    {[devices |-> DevicesAll, rooms |-> <<R1(KindThermostat, <<"a", "b">>, s)>>] :
        s \in {SchedOneSlot, SchedTarget}}

InitWarm == InitWith(WarmConfigurations)

NextWarm ==
    \/ TimerFires
    \/ ReadDevicesDone
    \/ ReadRoomsDone
    \/ PlanRoom
    \/ \E outcome \in WarmOutcomes : SensorResponse(outcome)
    \/ Dispatch
    \/ \E ok \in BOOLEAN : SetRelayResponse(ok)
    \/ TickDone(FALSE)
    \/ BoostRequests({Dur(1)}, {NoIds, Ids(<<"a">>)})
    \/ CancelBoost("r1")
    \/ AdvanceClock

SpecWarm == InitWarm /\ [][NextWarm]_vars

\* ------------------------------------------------------------------ claims

\* A room's iteration has just ended: commandsToSend holds what it queued.
JustPlanned == planned # <<>> /\ pc \in {"plan", "dispatch"}

\* The room loop has just ended: commandsToSend is what the dispatch loop
\* will act on.
EndOfPlanning == planned # <<>> /\ pc = "dispatch"

RadiatorsOf(room) == Elems(room.radiatorDeviceIds)

DesiredOf(cmds, id) == IF HasCommand(cmds, id) THEN CommandFor(cmds, id) ELSE "unset"

CacheIsOn(id) ==
    id \in DOMAIN lastCommandedRadiatorState /\ lastCommandedRadiatorState[id] = "on"

\* a boost the room read, not expired at the time it was read
ReadBoostCovers(loc, id) ==
    /\ loc.hasBoost
    /\ loc.activeBoost.until > loc.planTime
    /\ id \in Elems(loc.activeBoost.radiatorIds)

\* "HH:MM" as minutes of the day
MinutesOf(str) == (((str[1] * 10) + str[2]) * 60) + (str[4] * 10) + str[5]

MinuteOfDay(t) == t % (24 * 60)

Weekday(t) == DayNames[((t \div (24 * 60)) % 7) + 1]

\* the slots stored for the weekday of t, in stored order
StoredSlots(room, t) ==
    IF room.schedule.present /\ Weekday(t) \in DOMAIN room.schedule.days
    THEN room.schedule.days[Weekday(t)].slots
    ELSE <<>>

\* T lies in the slot's half-open interval [start, end)
Contains(slot, t) ==
    /\ ~slot.isNull
    /\ MinutesOf(slot.startTime) <= MinuteOfDay(t)
    /\ MinuteOfDay(t) < MinutesOf(slot.endTime)

Enables(slot, id) == slot.enabledKind = "array" /\ id \in Elems(slot.enabledRadiatorIds)

\* C1 (as claimed): at the end of planning, every radiator covered by a
\* non-expired boost of a room that lists it has desired state "on" in
\* commandsToSend, whatever else is configured.  (Stated for the rooms whose
\* processing raised no error.)
C1_BoostAlwaysOn ==
    EndOfPlanning =>
        \A i \in 1..Len(planned) : \A id \in RadiatorsOf(tickRooms[i]) :
            (~planned[i].threw /\ ReadBoostCovers(planned[i], id))
                => DesiredOf(commandsToSend, id) = "on"

\* C2 (as claimed): a schedule room without a boost queues "on" for R iff
\* SOME slot of the weekday contains the tick time and enables R.
C2_SomeSlotDecides ==
    JustPlanned =>
        LET loc == planned[Len(planned)]
            room == tickRooms[Len(planned)]
        IN  (room.controlMode = "schedule" /\ ~loc.hasBoost) =>
                \A id \in RadiatorsOf(room) :
                    (DesiredOf(commandsToSend, id) = "on")
                    <=> \E k \in 1..Len(StoredSlots(room, loc.planTime)) :
                            /\ Contains(StoredSlots(room, loc.planTime)[k], loc.planTime)
                            /\ Enables(StoredSlots(room, loc.planTime)[k], id)

\* the first slot in stored order that contains t is slot k
FirstContaining(slots, t, k) ==
    Contains(slots[k], t) /\ \A j \in 1..(k - 1) : ~Contains(slots[j], t)

\* C2 (amended): a schedule room without a boost whose processing raised no
\* error queues "on" for R iff the FIRST slot of the weekday, in stored
\* order, that contains the tick time enables R, and "off" otherwise; when
\* its processing raised an error it queues "off" for every radiator.
C2_FirstSlotDecides ==
    JustPlanned =>
        LET loc == planned[Len(planned)]
            room == tickRooms[Len(planned)]
            slots == StoredSlots(room, loc.planTime)
        IN  (room.controlMode = "schedule" /\ ~loc.hasBoost) =>
                \A id \in RadiatorsOf(room) :
                    DesiredOf(commandsToSend, id) =
                        IF /\ ~loc.threw
                           /\ \E k \in 1..Len(slots) :
                                 FirstContaining(slots, loc.planTime, k) /\ Enables(slots[k], id)
                        THEN "on" ELSE "off"

\* two slots contain the tick time, and the radiator only the later one
\* enables is off
C2_Witness ==
    /\ JustPlanned
    /\ tickRooms[Len(planned)].controlMode = "schedule"
    /\ ~planned[Len(planned)].hasBoost
    /\ LET t == planned[Len(planned)].planTime
           slots == StoredSlots(tickRooms[Len(planned)], t)
       IN  /\ Len(slots) = 2
           /\ Contains(slots[1], t) /\ Contains(slots[2], t)
           /\ ~Enables(slots[1], "b") /\ Enables(slots[2], "b")
    /\ DesiredOf(commandsToSend, "a") = "on"
    /\ DesiredOf(commandsToSend, "b") = "off"

\* the target the thermostat block compares with: the active slot's, else
\* the room's
EffectiveTarget(room, loc) ==
    IF loc.slotFound /\ loc.activeSlot.hasTarget THEN loc.activeSlot.targetTempC
    ELSE room.targetTempC

ReadSucceeded(room, loc) ==
    room.controlMode = "thermostat" /\ ~loc.threw /\ loc.sensor.kind = "value"

InBand(room, loc) ==
    /\ loc.sensor.value >= EffectiveTarget(room, loc) - room.hysteresisC
    /\ loc.sensor.value <= EffectiveTarget(room, loc) + room.hysteresisC

\* C3: a thermostat room whose sensor read succeeded needs heat when the
\* reading is below target - hysteresis and needs none when it is above
\* target + hysteresis, whatever the cache holds.
C3_OutOfBand ==
    \A i \in 1..Len(planned) :
        ReadSucceeded(tickRooms[i], planned[i]) =>
            LET room == tickRooms[i]
                loc == planned[i]
            IN  /\ (loc.sensor.value < EffectiveTarget(room, loc) - room.hysteresisC)
                        => loc.heatingNeededByTemp
                /\ (loc.sensor.value > EffectiveTarget(room, loc) + room.hysteresisC)
                        => ~loc.heatingNeededByTemp

\* a reading above the band while a radiator of the room is cached "on"
C3_Witness ==
    \E i \in 1..Len(planned) :
        /\ ReadSucceeded(tickRooms[i], planned[i])
        /\ planned[i].sensor.value
              > EffectiveTarget(tickRooms[i], planned[i]) + tickRooms[i].hysteresisC
        /\ \E id \in RadiatorsOf(tickRooms[i]) : CacheIsOn(id)
        /\ ~planned[i].heatingNeededByTemp

\* C4 (as claimed): within the band heating-needed is the state the previous
\* tick wanted for the room's radiators: on if it wanted them on, off if it
\* wanted them off.
C4_PreviousTickDecides ==
    \A i \in 1..Len(planned) :
        (/\ ReadSucceeded(tickRooms[i], planned[i])
         /\ InBand(tickRooms[i], planned[i])
         /\ \A id \in RadiatorsOf(tickRooms[i]) : HasCommand(prevCommands, id)) =>
            /\ (\A id \in RadiatorsOf(tickRooms[i]) : CommandFor(prevCommands, id) = "on")
                    => planned[i].heatingNeededByTemp
            /\ (\A id \in RadiatorsOf(tickRooms[i]) : CommandFor(prevCommands, id) = "off")
                    => ~planned[i].heatingNeededByTemp

\* C4 (amended): within the closed band heating-needed is true iff some
\* radiator of the room has the cache entry "on", the state last sent to it
\* with success.
C4_CacheDecides ==
    \A i \in 1..Len(planned) :
        (ReadSucceeded(tickRooms[i], planned[i]) /\ InBand(tickRooms[i], planned[i])) =>
            (planned[i].heatingNeededByTemp
                <=> \E id \in RadiatorsOf(tickRooms[i]) : CacheIsOn(id))

\* a reading in the band after a tick that wanted the radiators off, with
\* the cache still "on": heating stays needed
C4_Witness ==
    \E i \in 1..Len(planned) :
        /\ ReadSucceeded(tickRooms[i], planned[i])
        /\ InBand(tickRooms[i], planned[i])
        /\ \A id \in RadiatorsOf(tickRooms[i]) :
              HasCommand(prevCommands, id) /\ CommandFor(prevCommands, id) = "off"
        /\ planned[i].heatingNeededByTemp

\* the command the dispatch loop stands at
CurrentCommand == commandsToSend[cmdIdx]

CacheEquals(id, state) ==
    id \in DOMAIN lastCommandedRadiatorState /\ lastCommandedRadiatorState[id] = state

RelaysTo(log, id) == {k \in 1..Len(log) : log[k].id = id}

\* C5: while a Switch.Set request is in flight for a device, the cache entry
\* of that device differs from the desired state: no request is issued for
\* a device whose desired state equals its cache entry.
C5_NoCallWhenEqual ==
    pc = "setRelay" => ~CacheEquals(CurrentCommand.id, CurrentCommand.state)

\* the dispatch loop has ended and passed over a known device whose desired
\* state equalled its cache entry without a request
C5_Witness ==
    /\ pc = "dispatch"
    /\ cmdIdx > Len(commandsToSend)
    /\ \E k \in 1..Len(commandsToSend) :
          /\ HasDevice(tickDevices, commandsToSend[k].id)
          /\ CacheEquals(commandsToSend[k].id, commandsToSend[k].state)
          /\ RelaysTo(relayLog, commandsToSend[k].id) = {}

\* C6: every step that changes the cache is the settling of a Switch.Set
\* request that succeeded, and it changes exactly the entry of the device
\* of that request, to the state the request asked for.
C6_CacheWrittenBySetRelay ==
    [][(lastCommandedRadiatorState' # lastCommandedRadiatorState) =>
         /\ pc = "setRelay" /\ pc' = "dispatch"
         /\ Len(relayLog') = Len(relayLog) + 1
         /\ relayLog'[Len(relayLog')] =
              [id |-> CurrentCommand.id, state |-> CurrentCommand.state, ok |-> TRUE]
         /\ DOMAIN lastCommandedRadiatorState' =
              DOMAIN lastCommandedRadiatorState \cup {CurrentCommand.id}
         /\ lastCommandedRadiatorState'[CurrentCommand.id] = CurrentCommand.state
         /\ \A d \in DOMAIN lastCommandedRadiatorState \ {CurrentCommand.id} :
              lastCommandedRadiatorState'[d] = lastCommandedRadiatorState[d]]_vars

\* a request has just succeeded and one has failed in this tick: the cache
\* holds the state of the first and no entry for the second
C6_Witness ==
    /\ pc = "dispatch"
    /\ \E k \in 1..Len(relayLog) :
          relayLog[k].ok /\ CacheEquals(relayLog[k].id, relayLog[k].state)
    /\ \E k \in 1..Len(relayLog) :
          ~relayLog[k].ok /\ relayLog[k].id \notin DOMAIN lastCommandedRadiatorState

FailedLastTick(id) == \E k \in RelaysTo(prevRelayLog, id) : ~prevRelayLog[k].ok

\* C7: a Switch.Set request that fails leaves the cache as it was; the
\* dispatch loop issues a request only for a device it has not yet sent one
\* to in this tick; and for a known device whose request failed in the
\* previous tick and whose desired state differs from the cache, it issues
\* the request again.
C7_FailedSetRelay ==
    [][/\ (pc = "setRelay" /\ pc' = "dispatch" /\ ~relayLog'[Len(relayLog')].ok)
            => lastCommandedRadiatorState' = lastCommandedRadiatorState
       /\ (pc = "dispatch" /\ pc' = "setRelay")
            => RelaysTo(relayLog, CurrentCommand.id) = {}
       /\ (/\ pc = "dispatch" /\ cmdIdx <= Len(commandsToSend)
           /\ FailedLastTick(CurrentCommand.id)
           /\ HasDevice(tickDevices, CurrentCommand.id)
           /\ ~CacheEquals(CurrentCommand.id, CurrentCommand.state))
            => pc' = "setRelay"]_vars

\* the request that failed in the previous tick, while the cache held the
\* other state, is in flight again
C7_Witness ==
    /\ pc = "setRelay"
    /\ FailedLastTick(CurrentCommand.id)
    /\ CurrentCommand.id \in DOMAIN lastCommandedRadiatorState
    /\ RelaysTo(relayLog, CurrentCommand.id) = {}

\* what a room that raised no error queues for a radiator, from its locals
Expected(room, loc, id) ==
    IF loc.hasBoost /\ id \in Elems(loc.activeBoost.radiatorIds) THEN "on"
    ELSE IF /\ loc.slotFound
            /\ Enables(loc.activeSlot, id)
            /\ (room.controlMode = "schedule"
                \/ (room.controlMode = "thermostat" /\ loc.heatingNeededByTemp))
         THEN "on" ELSE "off"

\* the room loop goes on after the room it has just ended
LoopGoesOn ==
    IF Len(planned) < Len(tickRooms)
    THEN pc = "plan" /\ roomIdx = Len(planned) + 1
    ELSE pc = "dispatch"

\* C8: when a room's processing raises an error, every radiator of the room
\* is queued "off" and the room loop goes on with the next room; a room
\* processed after a room that raised an error queues what its own locals
\* give.
C8_RoomErrorIsolated ==
    JustPlanned =>
        LET n == Len(planned)
        IN  /\ planned[n].threw =>
                /\ \A id \in RadiatorsOf(tickRooms[n]) :
                      DesiredOf(commandsToSend, id) = "off"
                /\ LoopGoesOn
            /\ (~planned[n].threw /\ \E j \in 1..(n - 1) : planned[j].threw) =>
                \A id \in RadiatorsOf(tickRooms[n]) :
                    DesiredOf(commandsToSend, id) = Expected(tickRooms[n], planned[n], id)

\* the first room raised an error and its own radiator is off, the second
\* room was processed and its radiator is on
C8_Witness ==
    /\ EndOfPlanning
    /\ Len(planned) = 2
    /\ planned[1].threw /\ ~planned[2].threw
    /\ DesiredOf(commandsToSend, "a") = "off"
    /\ \E id \in RadiatorsOf(tickRooms[2]) : DesiredOf(commandsToSend, id) = "on"

SensorGaveNothing(room, loc) ==
    /\ room.controlMode = "thermostat"
    /\ ~loc.threw
    /\ \/ room.sensorDeviceId = NoId
       \/ ~HasDevice(tickDevices, room.sensorDeviceId)
       \/ ~findDeviceById(tickDevices, room.sensorDeviceId).hasBtSensorId
       \/ loc.sensor.kind \in {"error", "novalue"}

\* C10: when a thermostat room's sensor gives nothing, heating-needed is
\* false, the room queues "on" for the radiators its boost covers and "off"
\* for the others whatever the cache holds, and the room loop goes on; a
\* room processed after it queues what its own locals give.
C10_SensorFailureOff ==
    JustPlanned =>
        LET n == Len(planned)
        IN  /\ SensorGaveNothing(tickRooms[n], planned[n]) =>
                /\ ~planned[n].heatingNeededByTemp
                /\ \A id \in RadiatorsOf(tickRooms[n]) :
                      DesiredOf(commandsToSend, id) =
                          IF isRadiatorBoosted(planned[n], id) THEN "on" ELSE "off"
                /\ LoopGoesOn
            /\ (/\ ~planned[n].threw
                /\ \E j \in 1..(n - 1) : SensorGaveNothing(tickRooms[j], planned[j])) =>
                \A id \in RadiatorsOf(tickRooms[n]) :
                    DesiredOf(commandsToSend, id) = Expected(tickRooms[n], planned[n], id)

\* the sensor's request failed while radiator b was cached "on" and a boost
\* covered radiator a alone: a is on, b is off
C10_Witness ==
    /\ JustPlanned
    /\ SensorGaveNothing(tickRooms[Len(planned)], planned[Len(planned)])
    /\ planned[Len(planned)].sensor.kind = "error"
    /\ planned[Len(planned)].hasBoost
    /\ planned[Len(planned)].activeBoost.radiatorIds = <<"a">>
    /\ CacheIsOn("b")
    /\ DesiredOf(commandsToSend, "a") = "on"
    /\ DesiredOf(commandsToSend, "b") = "off"
    /\ Enables(planned[Len(planned)].activeSlot, "b")

\* ------------------------------------------------ claims on the boost routes

\* POST /rooms/:roomId/boost has just answered
AnsweredBoost == http.route = "boost"

ValidDuration(d) == d.present /\ d.value > 0

KnownRoom(roomId) == \E i \in 1..Len(rooms) : rooms[i].roomId = roomId

RoomOf(roomId) == rooms[CHOOSE i \in 1..Len(rooms) : rooms[i].roomId = roomId]

\* the request left the boost store as it found it
StoreUntouched == activeBoosts = http.before

\* the ids of a request that belong to the room
RequestedOfRoom(roomId, radiatorIds) ==
    Elems(radiatorIds.ids) \cap RadiatorsOf(RoomOf(roomId))

\* C11 (as claimed): a boost request whose durationMinutes is missing or
\* <= 0 is answered 400, one for an unknown room is answered 404, and
\* neither touches the boost store.
C11_BadRequestStatus ==
    AnsweredBoost =>
        /\ ~ValidDuration(http.durationMinutes) => (http.status = 400 /\ StoreUntouched)
        /\ ~KnownRoom(http.roomId) => (http.status = 404 /\ StoreUntouched)

\* C11 (amended): a boost request whose durationMinutes is missing or <= 0
\* is answered 400, whatever the room; one with a valid durationMinutes for
\* an unknown room is answered 404; neither touches the boost store.
C11_DurationCheckedFirst ==
    AnsweredBoost =>
        /\ ~ValidDuration(http.durationMinutes) => (http.status = 400 /\ StoreUntouched)
        /\ (ValidDuration(http.durationMinutes) /\ ~KnownRoom(http.roomId))
                => (http.status = 404 /\ StoreUntouched)

\* a zero durationMinutes for a room that has a boost: 400, and the boost
\* is still there
C11_Witness ==
    /\ AnsweredBoost
    /\ http.durationMinutes = Dur(0)
    /\ http.roomId \in DOMAIN http.before
    /\ http.status = 400
    /\ activeBoosts[http.roomId] = http.before[http.roomId]

\* C12 (as claimed): a valid boost request for a known room that gives a
\* list of radiator ids none of which belongs to the room is answered 400
\* and touches no boost, the empty list included.
C12_EmptyIntersection ==
    (/\ AnsweredBoost
     /\ ValidDuration(http.durationMinutes) /\ KnownRoom(http.roomId)
     /\ http.radiatorIds.isArray
     /\ RequestedOfRoom(http.roomId, http.radiatorIds) = {})
        => (http.status = 400 /\ StoreUntouched)

\* C12 (amended): a valid boost request for a known room that gives a
\* NON-EMPTY list of radiator ids none of which belongs to the room is
\* answered 400 and touches no boost; an empty list counts as no list: the
\* request succeeds and boosts all of the room's radiators.
C12_NonEmptyListChecked ==
    (/\ AnsweredBoost
     /\ ValidDuration(http.durationMinutes) /\ KnownRoom(http.roomId)
     /\ http.radiatorIds.isArray
     /\ RequestedOfRoom(http.roomId, http.radiatorIds) = {})
        => IF http.radiatorIds.ids # <<>>
           THEN http.status = 400 /\ StoreUntouched
           ELSE /\ http.status = 200
                /\ http.roomId \in DOMAIN activeBoosts
                /\ activeBoosts[http.roomId].radiatorIds
                      = RoomOf(http.roomId).radiatorDeviceIds

\* a list naming only a stranger, for a room that has a boost: 400, and the
\* boost is still there
C12_Witness ==
    /\ AnsweredBoost
    /\ ValidDuration(http.durationMinutes) /\ KnownRoom(http.roomId)
    /\ http.radiatorIds = Ids(<<"zz">>)
    /\ http.status = 400
    /\ http.roomId \in DOMAIN http.before
    /\ StoreUntouched

\* no ids are given: radiatorIds is absent or the empty list
NoIdsGiven(radiatorIds) == ~radiatorIds.isArray \/ radiatorIds.ids = <<>>

\* C13: a boost request answered 200 stores for the room all of the room's
\* radiators when no ids are given and otherwise exactly the requested ids
\* that belong to the room, with until = now + durationMinutes, and answers
\* with that set and that expiry.
C13_ResolvedSet ==
    (AnsweredBoost /\ http.status = 200) =>
        /\ http.roomId \in DOMAIN activeBoosts
        /\ Elems(activeBoosts[http.roomId].radiatorIds) =
              IF NoIdsGiven(http.radiatorIds) THEN RadiatorsOf(RoomOf(http.roomId))
              ELSE RequestedOfRoom(http.roomId, http.radiatorIds)
        /\ activeBoosts[http.roomId].until = http.at + http.durationMinutes.value
        /\ http.boostedRadiators = activeBoosts[http.roomId].radiatorIds
        /\ http.until = activeBoosts[http.roomId].until

\* a request naming a radiator of the room and a stranger boosts the first
\* alone
C13_Witness ==
    /\ AnsweredBoost /\ http.status = 200
    /\ http.roomId = "r1"
    /\ http.radiatorIds = Ids(<<"a", "zz">>)
    /\ activeBoosts["r1"].radiatorIds = <<"a">>
    /\ http.boostedRadiators = <<"a">>

\* C14: a boost request answered 200 for a room that has a boost replaces
\* it: the room's entry is the new expiry now + durationMinutes and the newly
\* resolved radiators, and the other rooms' entries are as they were.
C14_LastWriterWins ==
    (AnsweredBoost /\ http.status = 200 /\ http.roomId \in DOMAIN http.before) =>
        /\ DOMAIN activeBoosts = DOMAIN http.before
        /\ activeBoosts[http.roomId] =
              [until |-> http.at + http.durationMinutes.value,
               radiatorIds |->
                   IF NoIdsGiven(http.radiatorIds)
                   THEN RoomOf(http.roomId).radiatorDeviceIds
                   ELSE Filter(http.radiatorIds.ids, RadiatorsOf(RoomOf(http.roomId)))]
        /\ \A r \in DOMAIN http.before \ {http.roomId} : activeBoosts[r] = http.before[r]

\* a shorter and narrower boost has replaced a longer and wider one
C14_Witness ==
    /\ AnsweredBoost /\ http.status = 200
    /\ http.roomId \in DOMAIN http.before
    /\ http.before[http.roomId].until > activeBoosts[http.roomId].until
    /\ http.before[http.roomId].radiatorIds = <<"a", "b">>
    /\ activeBoosts[http.roomId].radiatorIds = <<"a">>

\* the room's boost covers all of the room's radiators, as a request without
\* ids leaves it, and had not expired when the room read it
AllBoosted(room, loc) ==
    /\ loc.hasBoost
    /\ loc.activeBoost.radiatorIds = room.radiatorDeviceIds
    /\ loc.activeBoost.until > loc.planTime

\* C15 (as claimed): in a tick that finds the boost of a request without ids
\* not expired and not cancelled, every radiator of the boosted room ends
\* with desired state "on".  (Stated for the rooms whose processing raised
\* no error.)
C15_BoostedRoomAllOn ==
    EndOfPlanning =>
        \A i \in 1..Len(planned) :
            (~planned[i].threw /\ AllBoosted(tickRooms[i], planned[i])) =>
                \A k \in 1..Len(tickRooms[i].radiatorDeviceIds) :
                    /\ HasCommand(commandsToSend, tickRooms[i].radiatorDeviceIds[k])
                    /\ CommandFor(commandsToSend, tickRooms[i].radiatorDeviceIds[k]) = "on"

\* POST /rooms/:roomId/cancel-boost has just answered
AnsweredCancel == http.route = "cancel-boost"

\* the store the request found held a boost of the room that had not expired
HadActiveBoost == http.roomId \in DOMAIN http.before /\ http.before[http.roomId].until > http.at

\* the room's entry is gone and the other rooms' entries are as they were
OnlyRoomRemoved ==
    /\ DOMAIN activeBoosts = DOMAIN http.before \ {http.roomId}
    /\ \A r \in DOMAIN activeBoosts : activeBoosts[r] = http.before[r]

\* C16 (as claimed): a cancel request for a room without a boost that has
\* not expired, an expired entry not yet pruned included, is answered 404;
\* any other is answered 200, removes the room's boost and leaves the other
\* rooms' boosts as they were.
C16_CancelNeedsActiveBoost ==
    AnsweredCancel =>
        IF HadActiveBoost THEN http.status = 200 /\ OnlyRoomRemoved
        ELSE http.status = 404

\* what the room queues for a radiator when no boost is taken into account
ExpectedUnboosted(room, loc, id) ==
    IF /\ loc.slotFound
       /\ Enables(loc.activeSlot, id)
       /\ (room.controlMode = "schedule"
           \/ (room.controlMode = "thermostat" /\ loc.heatingNeededByTemp))
    THEN "on" ELSE "off"

\* C17 (as claimed): a room that reads a boost whose expiry is <= the time
\* of the read queues for every radiator what it queues without a boost: no
\* radiator is "on" on account of that boost.
C17_ExpiredBoostIgnored ==
    JustPlanned =>
        LET room == tickRooms[Len(planned)]
            loc == planned[Len(planned)]
        IN  (~loc.threw /\ loc.hasBoost /\ loc.activeBoost.until <= loc.planTime) =>
                \A id \in RadiatorsOf(room) :
                    DesiredOf(commandsToSend, id) = ExpectedUnboosted(room, loc, id)

\* GET /rooms/:roomId/boost-status, GET /rooms/boosted have just answered
AnsweredStatus == http.route = "boost-status"

AnsweredBoosted == http.route = "boosted"

\* the entries of the store the request found that had not expired
ActiveBefore == {r \in DOMAIN http.before : http.before[r].until > http.at}

\* the prune has just run
JustPruned == pc = "plan" /\ roomIdx = 1 /\ planned = <<>>

\* C18: boost-status reports a boost exactly when the store holds an entry
\* of the room with until > now, and boosted lists exactly the entries with
\* until > now, pruned or not; right after the loop's prune the store holds
\* no entry with until <= now: until = now is expired in all three.
C18_ExpiredNeverReported ==
    /\ AnsweredStatus =>
          /\ http.boosted <=> http.roomId \in ActiveBefore
          /\ http.boosted => (/\ http.until = http.before[http.roomId].until
                              /\ http.boostedRadiators = http.before[http.roomId].radiatorIds)
    /\ AnsweredBoosted =>
          /\ DOMAIN http.rooms = ActiveBefore
          /\ \A r \in ActiveBefore : http.rooms[r] = http.before[r]
    /\ JustPruned => \A r \in DOMAIN activeBoosts : activeBoosts[r].until > clock

\* the store held the room's boost with until = now, no prune having run
\* since it expired, and boost-status reported no boost
C18_Witness ==
    /\ AnsweredStatus
    /\ http.roomId \in DOMAIN http.before
    /\ http.before[http.roomId].until = http.at
    /\ ~http.boosted

\* C19 (as claimed): a boost-status or boosted request leaves the boost
\* store and the commanded-state cache as they were.
C19_QueriesReadOnly ==
    [][(http'.route \in {"boost-status", "boosted"}) =>
          /\ activeBoosts' = activeBoosts
          /\ lastCommandedRadiatorState' = lastCommandedRadiatorState]_vars

\* the store without the entries of the rooms in rs that have expired at now
WithoutExpired(boosts, rs, now) ==
    [r \in {x \in DOMAIN boosts : ~(x \in rs /\ boosts[x].until <= now)} |-> boosts[r]]

\* C19 (amended): a boost-status request deletes the entry of the queried
\* room when it has expired, a boosted request deletes every entry that has
\* expired; both leave the entries that have not expired, and the
\* commanded-state cache, as they were.
C19_QueriesDeleteExpired ==
    [][/\ (http'.route = "boost-status") =>
             activeBoosts' = WithoutExpired(activeBoosts, {http'.roomId}, clock)
       /\ (http'.route = "boosted") =>
             activeBoosts' = WithoutExpired(activeBoosts, DOMAIN activeBoosts, clock)
       /\ (http'.route \in {"boost-status", "boosted"}) =>
             lastCommandedRadiatorState' = lastCommandedRadiatorState]_vars

\* a boosted request found an expired entry and one that had not expired:
\* the first is gone from the store, the second is still there
C19_Witness ==
    /\ AnsweredBoosted
    /\ \E r \in DOMAIN http.before : r \notin DOMAIN activeBoosts
    /\ \E r \in DOMAIN http.before : r \in DOMAIN activeBoosts

\* C20: a boost-status request for a room whose expired boost the loop's
\* prune has deleted, with no boost started for the room since, reports no
\* boost.
C20_PrunedStaysInactive ==
    (AnsweredStatus /\ http.roomId \in http.pruned) => ~http.boosted

\* such a request, made while another room has a boost
C20_Witness ==
    /\ AnsweredStatus
    /\ http.roomId \in http.pruned
    /\ ~http.boosted
    /\ \E r \in DOMAIN activeBoosts : r # http.roomId

\* C21: whatever the sensor reads and Switch.Set calls come to, a tick that
\* has started finishes, the first call at startup is followed by setInterval,
\* and after a tick another one starts.
C21_TicksGoOn ==
    /\ (pc # "idle") ~> (pc = "idle")
    /\ (timer = "initial") ~> (timer = "interval")
    /\ (pc = "idle") ~> (pc = "readDevices")

\* a tick has started after a tick in which a Switch.Set call failed
C21_Witness ==
    /\ pc = "readDevices"
    /\ timer = "interval"
    /\ \E i \in 1..Len(prevRelayLog) : ~prevRelayLog[i].ok

\* C22: at most one execution of heatingControlLoop is in progress: the timer
\* starts no tick while an earlier tick is suspended in one of its awaits.
C22_TicksSerialized == pc = "idle" \/ other = NotRunning

\* The tick has pruned and a room after the one awaiting its sensor has yet to
\* read its boost.
BetweenPruneAndLastRead == pc = "sensor" /\ roomIdx < Len(tickRooms)

\* a boost is stored or replaced, or a boost that has not expired is deleted
BoostOrCancelTakesEffect ==
    \/ \E r \in DOMAIN activeBoosts' :
          r \notin DOMAIN activeBoosts \/ activeBoosts'[r] # activeBoosts[r]
    \/ \E r \in (DOMAIN activeBoosts) \ (DOMAIN activeBoosts') :
          activeBoosts[r].until > clock

\* C23: between a tick's prune and the tick's last read of the boost store no
\* StartBoost and no CancelBoost takes effect.
C23_NoBoostWhilePlanning ==
    [][BetweenPruneAndLastRead => ~BoostOrCancelTakesEffect]_vars

\* ------------------------------------------------------ claims on the slots

SomeContains(slots, t) == \E k \in 1..Len(slots) : Contains(slots[k], t)

\* the first slot in stored order that contains t
FirstSlot(slots, t) ==
    slots[CHOOSE k \in 1..Len(slots) : FirstContaining(slots, t, k)]

TargetOf(room, slot) == IF slot.hasTarget THEN slot.targetTempC ELSE room.targetTempC

\* the boost the room read names the radiator
ReadBoostNames(loc, id) == loc.hasBoost /\ id \in Elems(loc.activeBoost.radiatorIds)

\* C24: when several slots of the day contain the tick time, the active slot
\* is the first of them in stored order; its enabled set is the enabled set
\* of the tick, its target (else the room's) is the one the reading is
\* compared with, and a radiator it does not enable is off unless boosted.
C24_FirstMatchWins ==
    \A i \in 1..Len(planned) :
        LET loc == planned[i]
            room == tickRooms[i]
            slots == StoredSlots(room, loc.planTime)
        IN  (~loc.threw /\ SomeContains(slots, loc.planTime)) =>
                LET first == FirstSlot(slots, loc.planTime)
                    target == TargetOf(room, first)
                IN  /\ loc.slotFound
                    /\ loc.activeSlot = first
                    /\ Elems(loc.enabledIdsInSlot)
                          = {id \in DeviceIds : Enables(first, id)}
                    /\ ReadSucceeded(room, loc) =>
                          /\ (loc.sensor.value < target - room.hysteresisC)
                                => loc.heatingNeededByTemp
                          /\ (loc.sensor.value > target + room.hysteresisC)
                                => ~loc.heatingNeededByTemp
                    /\ (JustPlanned /\ i = Len(planned)) =>
                          \A id \in RadiatorsOf(room) :
                              (~Enables(first, id) /\ ~ReadBoostNames(loc, id))
                                  => DesiredOf(commandsToSend, id) = "off"

\* a thermostat room planned while two slots with different targets contain
\* the time: the first slot's target 22 makes the reading 19 call for heat,
\* a is on and b, which only the second slot enables, is off
C24_Witness ==
    /\ JustPlanned
    /\ LET loc == planned[Len(planned)]
           room == tickRooms[Len(planned)]
           slots == StoredSlots(room, loc.planTime)
       IN  /\ room.controlMode = "thermostat"
           /\ Len(slots) = 2
           /\ Contains(slots[1], loc.planTime) /\ Contains(slots[2], loc.planTime)
           /\ slots[1].hasTarget /\ slots[2].hasTarget
           /\ slots[1].targetTempC # slots[2].targetTempC
           /\ loc.sensor = Reading(19)
           /\ loc.heatingNeededByTemp
           /\ ~loc.hasBoost
    /\ DesiredOf(commandsToSend, "a") = "on"
    /\ DesiredOf(commandsToSend, "b") = "off"

\* C25: a slot is active at time T iff start <= T < end, in minutes of the
\* same day: the comparison of the "HH:MM" strings agrees with it for every
\* stored slot, a room has an active slot iff some stored slot contains T,
\* and the active slot starts before it ends, at or before T, and ends after T.
C25_HalfOpenSameDay ==
    \A i \in 1..Len(planned) :
        LET loc == planned[i]
            slots == StoredSlots(tickRooms[i], loc.planTime)
            T == MinuteOfDay(loc.planTime)
        IN  ~loc.threw =>
                /\ \A k \in 1..Len(slots) :
                      SlotMatches(currentTime(loc.planTime), slots[k])
                          <=> (/\ MinutesOf(slots[k].startTime) <= T
                               /\ T < MinutesOf(slots[k].endTime))
                /\ loc.slotFound <=> SomeContains(slots, loc.planTime)
                /\ loc.slotFound =>
                      /\ MinutesOf(loc.activeSlot.startTime) <= T
                      /\ T < MinutesOf(loc.activeSlot.endTime)
                      /\ MinutesOf(loc.activeSlot.startTime)
                            < MinutesOf(loc.activeSlot.endTime)

\* a room planned at the very minute at which a slot both starts and ends
\* has no active slot
C25_Witness ==
    \E i \in 1..Len(planned) :
        LET loc == planned[i]
            slots == StoredSlots(tickRooms[i], loc.planTime)
        IN  /\ ~loc.threw
            /\ ~loc.slotFound
            /\ \E k \in 1..Len(slots) :
                  /\ slots[k].startTime = slots[k].endTime
                  /\ MinutesOf(slots[k].startTime) = MinuteOfDay(loc.planTime)

\* the rooms of the tick planned so far that list the radiator
PlannedRoomsOf(id) == {i \in 1..Len(planned) : id \in RadiatorsOf(tickRooms[i])}

LastRoomOf(id) == CHOOSE i \in PlannedRoomsOf(id) : \A j \in PlannedRoomsOf(id) : j <= i

\* what a room's iteration computes for one of its radiators
ComputedBy(room, loc, id) ==
    IF loc.threw THEN "off"
    ELSE IF ReadBoostNames(loc, id) THEN "on"
    ELSE IF /\ loc.slotFound
            /\ Enables(loc.activeSlot, id)
            /\ (room.controlMode = "thermostat" => loc.heatingNeededByTemp)
    THEN "on"
    ELSE "off"

\* C26: at the end of planning the desired-state map holds one value per
\* radiator id, and for a radiator listed by several rooms it is the value
\* computed by the last of them in registry order, the "off" of that room's
\* catch block included.
C26_LastRoomWins ==
    EndOfPlanning =>
        /\ \A k, l \in 1..Len(commandsToSend) :
              commandsToSend[k].id = commandsToSend[l].id => k = l
        /\ \A id \in DeviceIds :
              IF PlannedRoomsOf(id) = {} THEN ~HasCommand(commandsToSend, id)
              ELSE /\ HasCommand(commandsToSend, id)
                   /\ CommandFor(commandsToSend, id)
                        = ComputedBy(tickRooms[LastRoomOf(id)], planned[LastRoomOf(id)], id)

\* r1 computes "on" for b, the later room r2 throws, and b is queued "off"
C26_Witness ==
    /\ EndOfPlanning
    /\ Len(planned) = 2
    /\ "b" \in RadiatorsOf(tickRooms[1]) \cap RadiatorsOf(tickRooms[2])
    /\ ComputedBy(tickRooms[1], planned[1], "b") = "on"
    /\ planned[2].threw
    /\ CommandFor(commandsToSend, "b") = "off"

\* C27: a room for which no stored slot of the weekday contains the tick
\* time (no schedule, no slots for the day, or none containing the time)
\* queues "off" for each of its radiators that the boost it read does not
\* name, in either mode, whatever the reading and the cache.
C27_NoSlotIsOff ==
    JustPlanned =>
        LET room == tickRooms[Len(planned)]
            loc == planned[Len(planned)]
        IN  ~SomeContains(StoredSlots(room, loc.planTime), loc.planTime) =>
                \A id \in RadiatorsOf(room) :
                    ~ReadBoostNames(loc, id) => DesiredOf(commandsToSend, id) = "off"

\* a thermostat room planned after its slot ended, with a reading below the
\* band and radiator a cached "on": a is off
C27_Witness ==
    /\ JustPlanned
    /\ LET room == tickRooms[Len(planned)]
           loc == planned[Len(planned)]
       IN  /\ room.controlMode = "thermostat"
           /\ StoredSlots(room, loc.planTime) # <<>>
           /\ ~SomeContains(StoredSlots(room, loc.planTime), loc.planTime)
           /\ loc.sensor = Reading(18)
           /\ loc.heatingNeededByTemp
           /\ ~loc.hasBoost
    /\ CacheIsOn("a")
    /\ DesiredOf(commandsToSend, "a") = "off"

\* C28: in a thermostat room whose processing raised no error, a radiator
\* that the boost the room read does not name is queued "on" iff the active
\* slot enables it and heating is needed; and when the reading succeeded,
\* heating-needed is decided by the band of the room's hysteresis around the
\* active slot's target when the slot has one, around the room's otherwise.
C28_EnabledAndNeeded ==
    JustPlanned =>
        LET room == tickRooms[Len(planned)]
            loc == planned[Len(planned)]
            target == IF loc.slotFound /\ loc.activeSlot.hasTarget
                      THEN loc.activeSlot.targetTempC
                      ELSE room.targetTempC
        IN  (room.controlMode = "thermostat" /\ ~loc.threw) =>
                /\ \A id \in RadiatorsOf(room) :
                      ~ReadBoostNames(loc, id) =>
                          (DesiredOf(commandsToSend, id) = "on"
                              <=> (/\ loc.slotFound
                                   /\ Enables(loc.activeSlot, id)
                                   /\ loc.heatingNeededByTemp))
                /\ loc.sensor.kind = "value" =>
                      loc.heatingNeededByTemp =
                          IF loc.sensor.value < target - room.hysteresisC THEN TRUE
                          ELSE IF loc.sensor.value > target + room.hysteresisC THEN FALSE
                          ELSE \E id \in RadiatorsOf(room) : CacheIsOn(id)

\* the active slot's target is 18 and the room's is 20: the reading 21, inside
\* the room's band with a radiator cached "on", is above the slot's band, no
\* heating is needed and the enabled radiator a is off
C28_Witness ==
    /\ JustPlanned
    /\ LET room == tickRooms[Len(planned)]
           loc == planned[Len(planned)]
       IN  /\ room.controlMode = "thermostat"
           /\ loc.slotFound
           /\ loc.activeSlot.hasTarget
           /\ loc.activeSlot.targetTempC = 18
           /\ room.targetTempC = 20
           /\ loc.sensor = Reading(21)
           /\ \E id \in RadiatorsOf(room) : CacheIsOn(id)
           /\ ~loc.heatingNeededByTemp
           /\ Enables(loc.activeSlot, "a")
           /\ ~ReadBoostNames(loc, "a")
    /\ DesiredOf(commandsToSend, "a") = "off"

\* the reading is on the lower or on the upper bound of the band
OnBound(room, loc) ==
    \/ loc.sensor.value = EffectiveTarget(room, loc) - room.hysteresisC
    \/ loc.sensor.value = EffectiveTarget(room, loc) + room.hysteresisC

NoCacheEntry(room) ==
    \A id \in RadiatorsOf(room) : id \notin DOMAIN lastCommandedRadiatorState

\* C29: for a reading within the closed band, its two bounds included,
\* heating is needed iff the cache holds "on" for some radiator of the room;
\* a radiator without a cache entry counts as off, so that in the first tick
\* of a run a reading within the band gives heating-needed = false.
C29_BandFollowsCache ==
    \A i \in 1..Len(planned) :
        LET room == tickRooms[i]
            loc == planned[i]
        IN  (ReadSucceeded(room, loc) /\ (InBand(room, loc) \/ OnBound(room, loc))) =>
                /\ loc.heatingNeededByTemp
                      = (\E id \in RadiatorsOf(room) :
                            /\ id \in DOMAIN lastCommandedRadiatorState
                            /\ lastCommandedRadiatorState[id] = "on")
                /\ NoCacheEntry(room) => ~loc.heatingNeededByTemp
                /\ timer = "initial" => ~loc.heatingNeededByTemp

\* the first tick of a run reads exactly the lower bound: no heating needed
C29_Witness ==
    \E i \in 1..Len(planned) :
        /\ timer = "initial"
        /\ ReadSucceeded(tickRooms[i], planned[i])
        /\ planned[i].sensor.value
              = EffectiveTarget(tickRooms[i], planned[i]) - tickRooms[i].hysteresisC
        /\ NoCacheEntry(tickRooms[i])
        /\ ~planned[i].heatingNeededByTemp

\* ------------------------------------------------- claims on deleted rooms

TickRoomIds == {tickRooms[i].roomId : i \in 1..Len(tickRooms)}

\* The running tick, if any, read rooms.json after the room was deleted (no
\* room is created again): the steps taken now belong to a later tick.
LaterTick(r) == r \in deletedRooms /\ r.roomId \notin TickRoomIds

\* the radiators of a deleted room that no room of the registry and no room
\* the running tick has read lists
OrphansOf(r) ==
    RadiatorsOf(r)
        \ (UNION {RadiatorsOf(rooms[i]) : i \in 1..Len(rooms)}
             \cup UNION {RadiatorsOf(tickRooms[i]) : i \in 1..Len(tickRooms)})

CacheEntry(cache, id) == IF id \in DOMAIN cache THEN cache[id] ELSE "none"

BoostEntry(boosts, roomId) == IF roomId \in DOMAIN boosts THEN <<boosts[roomId]>> ELSE <<>>

\* no desired state is computed and no Switch.Set is pending for the orphans
NothingPlannedFor(r) ==
    \A id \in OrphansOf(r) :
        /\ ~HasCommand(commandsToSend, id)
        /\ pc = "setRelay" => commandsToSend[cmdIdx].id # id

NothingPlannedForDeleted ==
    \A r \in deletedRooms : LaterTick(r) => NothingPlannedFor(r)

\* the deletion itself touches neither the cache nor the boost store
DeletionKeepsStores ==
    rooms' # rooms =>
        /\ lastCommandedRadiatorState' = lastCommandedRadiatorState
        /\ activeBoosts' = activeBoosts

CacheKeptFor(r) ==
    \A id \in OrphansOf(r) :
        CacheEntry(lastCommandedRadiatorState', id) = CacheEntry(lastCommandedRadiatorState, id)

\* C30 (as claimed): once a room is deleted and its radiators belong to no
\* other room, a later tick computes no desired state for them and sends them
\* no Switch.Set, and their cache entries and the boost stored for the room
\* stay as they were.
C30_DeletedRoomUntouched ==
    [][/\ DeletionKeepsStores
       /\ NothingPlannedForDeleted'
       /\ \A r \in deletedRooms :
             LaterTick(r) =>
                 /\ CacheKeptFor(r)
                 /\ BoostEntry(activeBoosts', r.roomId)
                       = BoostEntry(activeBoosts, r.roomId)]_vars

\* C30 (amended): once a room is deleted and its radiators belong to no other
\* room, a later tick computes no desired state for them and sends them no
\* Switch.Set, and their cache entries stay as they were; the boost stored
\* for the room stays as it was while it has not expired, and the prune of
\* the first tick that finds it expired deletes it.
C30_DeletedRoomBoostExpires ==
    [][/\ DeletionKeepsStores
       /\ NothingPlannedForDeleted'
       /\ \A r \in deletedRooms :
             LaterTick(r) =>
                 /\ CacheKeptFor(r)
                 /\ \/ BoostEntry(activeBoosts', r.roomId)
                          = BoostEntry(activeBoosts, r.roomId)
                    \/ /\ pc = "readRooms" /\ pc' # "readRooms"
                       /\ r.roomId \in DOMAIN activeBoosts
                       /\ activeBoosts[r.roomId].until <= clock
                       /\ r.roomId \notin DOMAIN activeBoosts']_vars

\* r1 was deleted while its radiator a was cached "on" and its boost was
\* stored; a later tick has planned the rooms left, with no desired state for
\* a, after its prune deleted the boost
C30_Witness ==
    \E r \in deletedRooms :
        /\ r.roomId = "r1"
        /\ "a" \in OrphansOf(r)
        /\ CacheIsOn("a")
        /\ pc = "dispatch"
        /\ tickRooms # <<>>
        /\ LaterTick(r)
        /\ ~HasCommand(commandsToSend, "a")
        /\ "r1" \notin DOMAIN activeBoosts
        /\ clock > StartOfRun + 1

\* ------------------------------------------------- claims on a tick's phases

\* an execution of the loop awaits a sensor: the decision of its room, and of
\* the rooms after it, is still to be taken
DecisionPending == pc = "sensor" \/ other.pc = "sensor"

\* C31: from the start of a tick to the end of its planning the cache is not
\* written: every room's decision reads the cache the tick started with.
C31_CacheStableWhilePlanning ==
    [][DecisionPending => lastCommandedRadiatorState' = lastCommandedRadiatorState]_vars

\* the time the tick's first room was planned at: the time of the prune
TickTime == planned[1].planTime

\* C32: all rooms of a tick are evaluated against the same instant: each
\* room's active slot is the one its schedule gives for the tick's time.
C32_OneTickTime ==
    EndOfPlanning =>
        \A i \in 1..Len(planned) :
            ~planned[i].threw =>
                LET f == FindActiveSlot(todaysSchedule(tickRooms[i], TickTime),
                                        currentTime(TickTime))
                IN  /\ planned[i].planTime = TickTime
                    /\ ~f.threw
                    /\ planned[i].slotFound = f.found
                    /\ planned[i].activeSlot = f.slot

\* the dispatch loop has gone through all of commandsToSend
EndOfDispatch == pc = "dispatch" /\ cmdIdx > Len(commandsToSend)

\* the commands the dispatch loop has dealt with
Dispatched == 1..(IF cmdIdx > Len(commandsToSend) THEN Len(commandsToSend) ELSE cmdIdx - 1)

NoEntry(id) == id \notin DOMAIN lastCommandedRadiatorState

\* a registered device that still has no cache entry after the dispatch loop
\* dealt with it was sent one request, which failed; and at the end of the
\* first tick every registered radiator of a room was sent one request
OneRequestWithoutEntry ==
    /\ pc \in {"dispatch", "setRelay"} =>
          \A k \in Dispatched :
              (HasDevice(tickDevices, commandsToSend[k].id) /\ NoEntry(commandsToSend[k].id))
                  => Cardinality(RelaysTo(relayLog, commandsToSend[k].id)) = 1
    /\ (EndOfDispatch /\ timer = "initial") =>
          \A i \in 1..Len(tickRooms) : \A id \in RadiatorsOf(tickRooms[i]) :
              HasDevice(tickDevices, id) =>
                  /\ Cardinality(RelaysTo(relayLog, id)) = 1
                  /\ \A k \in RelaysTo(relayLog, id) :
                        relayLog[k].state = CommandFor(commandsToSend, id)

\* the dispatch loop, standing at a registered device without a cache entry,
\* sends Switch.Set, whatever the desired state
SendsWithoutEntry ==
    (/\ pc = "dispatch" /\ cmdIdx <= Len(commandsToSend)
     /\ HasDevice(tickDevices, commandsToSend[cmdIdx].id)
     /\ NoEntry(commandsToSend[cmdIdx].id)
     /\ pc' # pc \/ cmdIdx' # cmdIdx)
        => (pc' = "setRelay" /\ cmdIdx' = cmdIdx)

\* C33: a registered device with a desired state and no cache entry is sent
\* exactly one Switch.Set in the tick, "off" included; in the first tick of a
\* run every registered radiator that a room lists is sent one.
C33_NoEntryIsSent == []OneRequestWithoutEntry /\ [][SendsWithoutEntry]_vars

\* the first tick of a run has ended and b, whose desired state is "off",
\* was sent Switch.Set off
C33_Witness ==
    /\ EndOfDispatch
    /\ timer = "initial"
    /\ HasCommand(commandsToSend, "b")
    /\ CommandFor(commandsToSend, "b") = "off"
    /\ \E k \in RelaysTo(relayLog, "b") : relayLog[k].state = "off"

\* the radiators that room i of the tick lists and no other room of it does
OnlyOf(i) ==
    RadiatorsOf(tickRooms[i])
        \ UNION {RadiatorsOf(tickRooms[j]) : j \in (1..Len(tickRooms)) \ {i}}

\* C34: at the end of the dispatch loop every registered device of the map
\* either has its desired state in the cache or was sent one request that
\* failed, and every request that succeeded is in the cache, whichever
\* requests failed before; at the end of planning the radiators that only
\* one room lists have the state that room's own locals give, whichever
\* other room's sensor read failed.
C34_FailuresIsolated ==
    /\ EndOfDispatch =>
          /\ \A k \in 1..Len(commandsToSend) :
                HasDevice(tickDevices, commandsToSend[k].id) =>
                    \/ CacheEquals(commandsToSend[k].id, commandsToSend[k].state)
                    \/ /\ Cardinality(RelaysTo(relayLog, commandsToSend[k].id)) = 1
                       /\ \A l \in RelaysTo(relayLog, commandsToSend[k].id) : ~relayLog[l].ok
          /\ \A l \in 1..Len(relayLog) :
                relayLog[l].ok => CacheEquals(relayLog[l].id, relayLog[l].state)
    /\ EndOfPlanning =>
          \A i \in 1..Len(planned) :
              ~planned[i].threw =>
                  \A id \in OnlyOf(i) :
                      DesiredOf(commandsToSend, id) = Expected(tickRooms[i], planned[i], id)

\* the request for a failed, the request for b was sent after it and
\* succeeded, and the cache holds b's state and nothing for a
C34_Witness ==
    /\ EndOfDispatch
    /\ Len(relayLog) = 2
    /\ relayLog[1].id = "a" /\ ~relayLog[1].ok
    /\ relayLog[2].id = "b" /\ relayLog[2].ok
    /\ CacheEquals("b", relayLog[2].state)
    /\ NoEntry("a")

\* ------------------------------------------------- manual switching (C35)

\* a manual device route has just answered
ManualAnswered == http.route \in {"control", "toggle"}

\* the relay of the device is known to be in another state than the cache says
RelayDiffersFromCache(id) ==
    /\ id \in DOMAIN relay
    /\ id \in DOMAIN lastCommandedRadiatorState
    /\ relay[id] # lastCommandedRadiatorState[id]

\* C35: a step of POST /devices/:id/control or POST /devices/:id/toggle,
\* whatever it does to the relay, leaves the cache and the boost store as
\* they were; and the dispatch loop passes over a command whose state equals
\* the cache entry without a request and without touching relay or cache,
\* whatever state the relay is in.
C35_ManualLeavesCacheStale ==
    [][/\ ManualAnswered' =>
            /\ lastCommandedRadiatorState' = lastCommandedRadiatorState
            /\ activeBoosts' = activeBoosts
       /\ (/\ pc = "dispatch" /\ cmdIdx <= Len(commandsToSend)
           /\ CacheEquals(CurrentCommand.id, CurrentCommand.state)) =>
            /\ pc' = "dispatch" /\ cmdIdx' = cmdIdx + 1
            /\ relayLog' = relayLog
            /\ relay' = relay
            /\ lastCommandedRadiatorState' = lastCommandedRadiatorState]_vars

\* a tick has ended without a request for a device that was switched by hand
\* after the loop's last command: its relay is not in the desired state, which
\* the cache still holds
C35_Witness ==
    /\ EndOfDispatch
    /\ \E k \in 1..Len(commandsToSend) :
          /\ CacheEquals(commandsToSend[k].id, commandsToSend[k].state)
          /\ RelayDiffersFromCache(commandsToSend[k].id)
          /\ RelaysTo(relayLog, commandsToSend[k].id) = {}

\* ------------------------------------------ a boost and the memory (C36)

\* the room read no boost entry: none was started, or it was cancelled or
\* pruned before the room was evaluated
NoBoostRead(loc) == ~loc.hasBoost

\* no reading so far was below the band: the cache holds "on" only for a
\* radiator that a boost switched on, or that the memory kept on after it
NeverCold ==
    \A i \in 1..Len(planned) :
        ReadSucceeded(tickRooms[i], planned[i]) =>
            planned[i].sensor.value
                >= EffectiveTarget(tickRooms[i], planned[i]) - tickRooms[i].hysteresisC

\* C36: in a thermostat room that is never read cold, so that "on" reaches
\* the cache through a boost only, a tick that reads no boost any more, reads
\* the sensor within the closed band and finds radiator R enabled by the
\* active slot and "on" in the cache queues "on" for R: heating is needed
\* again although no reading ever asked for it.
C36_BoostFeedsMemory ==
    /\ NeverCold
    /\ EndOfPlanning =>
          \A i \in 1..Len(planned) :
              LET room == tickRooms[i]
                  loc == planned[i]
              IN  (/\ ReadSucceeded(room, loc) /\ InBand(room, loc)
                   /\ NoBoostRead(loc))
                      => \A id \in RadiatorsOf(room) :
                            (CacheIsOn(id) /\ loc.slotFound /\ Enables(loc.activeSlot, id))
                                => /\ loc.heatingNeededByTemp
                                   /\ DesiredOf(commandsToSend, id) = "on"

\* the boost that switched a on has ended; the reading is within the band,
\* the slot enables a, and a is queued "on" again
C36_Witness ==
    /\ EndOfPlanning
    /\ activeBoosts = [r \in {} |-> NoBoost]
    /\ \E i \in 1..Len(planned) :
          /\ ReadSucceeded(tickRooms[i], planned[i])
          /\ InBand(tickRooms[i], planned[i])
          /\ NoBoostRead(planned[i])
          /\ CacheIsOn("a")
          /\ planned[i].slotFound /\ Enables(planned[i].activeSlot, "a")
          /\ DesiredOf(commandsToSend, "a") = "on"

\* ---------------------------------------------------- convergence (C37)

\* the dispatch loop of the tick in progress holds the state d for the device
DesiredIs(id, d) ==
    pc \in {"dispatch", "setRelay"} => DesiredOf(commandsToSend, id) = d

\* a Switch.Set request for the device is in flight
RequestInFlight(id) == pc = "setRelay" /\ CurrentCommand.id = id

\* the Switch.Set request for the device is answered
SucceedsFor(id) == RequestInFlight(id) /\ SetRelayResponse(TRUE)

\* the cache holds d for the device and no request for it is in flight
Converged(id, d) == CacheEquals(id, d) /\ ~RequestInFlight(id)

\* from some tick on every tick wants d for the device, and of the requests
\* sent for it again and again one is answered
ConvergesTo(id, d) ==
    (<>[]DesiredIs(id, d) /\ SF_vars(SucceedsFor(id))) => <>[]Converged(id, d)

\* C37: if from some tick on every tick wants the same state d for a
\* radiator, and a Switch.Set request for it that is sent again and again is
\* answered at some time, then from some time on the cache holds d for the
\* radiator and no further request is sent for it.
C37_Convergence ==
    \A id \in {"a", "b"} : \A d \in {"on", "off"} : ConvergesTo(id, d)

\* a tick has passed over a without a request, its cache entry being the
\* desired state that the tick before had sent with success
C37_Witness ==
    /\ EndOfDispatch
    /\ RelaysTo(relayLog, "a") = {}
    /\ CacheEquals("a", DesiredOf(commandsToSend, "a"))
    /\ \E k \in RelaysTo(prevRelayLog, "a") :
          prevRelayLog[k].ok /\ prevRelayLog[k].state = DesiredOf(commandsToSend, "a")

\* ------------------------------------------- failed boost requests (C38)

\* a boost or cancel-boost request has just been answered with an error
BoostRequestFailed == (AnsweredBoost \/ AnsweredCancel) /\ http.status # 200

\* the boosts the request found are all still there, each with its expiry and
\* its radiators, and there is no other
SameBoosts ==
    /\ DOMAIN activeBoosts = DOMAIN http.before
    /\ \A r \in DOMAIN http.before :
          /\ activeBoosts[r].until = http.before[r].until
          /\ activeBoosts[r].radiatorIds = http.before[r].radiatorIds

\* C38: a boost request answered 400 or 404 and a cancel-boost request
\* answered 404 leave the boost store as they found it: no entry is created,
\* replaced or removed, and a boost the room had keeps its expiry and its
\* radiators.
C38_FailedRequestKeepsStore ==
    /\ BoostRequestFailed => SameBoosts
    /\ (AnsweredBoost /\ http.status \notin {400, 404}) => http.status = 200
    /\ (AnsweredCancel /\ http.status # 404) => http.status = 200

\* a boost request naming a stranger's radiator was answered 400 while the
\* room's longer boost and the other room's boost stay
C38_Witness ==
    /\ BoostRequestFailed
    /\ AnsweredBoost /\ http.status = 400
    /\ ValidDuration(http.durationMinutes)
    /\ DOMAIN http.before = RoomIds
    /\ SameBoosts
    /\ activeBoosts[http.roomId].until > http.at + http.durationMinutes.value

\* ------------------------------------- devices missing at dispatch (C39)

\* the dispatch loop of a tick is in progress
Dispatching == pc \in {"dispatch", "setRelay"}

\* the devices with a desired state that the tick's registry does not hold
MissingIds ==
    {commandsToSend[k].id : k \in 1..Len(commandsToSend)}
        \ {id \in DeviceIds : HasDevice(tickDevices, id)}

\* no request is or was sent for a missing device, and when the loop has
\* ended every registered device has been dealt with: its cache entry is the
\* desired state, or the request sent for it failed
MissingNeverSent ==
    /\ Dispatching =>
          \A id \in MissingIds : RelaysTo(relayLog, id) = {} /\ ~RequestInFlight(id)
    /\ EndOfDispatch =>
          \A k \in 1..Len(commandsToSend) :
              HasDevice(tickDevices, commandsToSend[k].id) =>
                  \/ CacheEquals(commandsToSend[k].id, commandsToSend[k].state)
                  \/ \E j \in RelaysTo(relayLog, commandsToSend[k].id) : ~relayLog[j].ok

\* a step of the dispatch loop leaves the cache as it is for a missing device
MissingKeepsCache ==
    Dispatching =>
        \A id \in MissingIds :
            /\ (id \in DOMAIN lastCommandedRadiatorState')
                  = (id \in DOMAIN lastCommandedRadiatorState)
            /\ id \in DOMAIN lastCommandedRadiatorState =>
                  lastCommandedRadiatorState'[id] = lastCommandedRadiatorState[id]

\* C39: during the dispatch loop no Switch.Set request is sent for a device
\* that has a desired state but is not in the devices the tick read, its
\* cache entry is neither written nor removed, and the loop goes on to the
\* end, dealing with every registered device.
C39_MissingDeviceSkipped == []MissingNeverSent /\ [][MissingKeepsCache]_vars

\* the loop has ended; the first command was for a missing device that was
\* to be on, and the request for a later, registered device was answered
C39_Witness ==
    /\ EndOfDispatch
    /\ Len(commandsToSend) > 1
    /\ commandsToSend[1].id \in MissingIds
    /\ commandsToSend[1].state = "on"
    /\ NoEntry(commandsToSend[1].id)
    /\ \E j \in 1..Len(relayLog) :
          /\ relayLog[j].ok
          /\ relayLog[j].id = commandsToSend[2].id

====
